---- MODULE Spec2Model ----
(***************************************************************************)
(* Ticket & Help-Content Store (src/src/backend/main.mo): one actor that   *)
(* owns the ticket map, the two help-topic maps, the per-platform          *)
(* display-name counters and the topic-id counter.  Every public function  *)
(* of the actor is one action; the actor handles one message at a time.    *)
(*                                                                         *)
(* Text is a sequence of one-character strings, an optional value ?T is a  *)
(* sequence of length 0 (null) or 1 (?v), a Map is a function whose domain *)
(* is its key set and whose iteration order is ascending key order.        *)
(*                                                                         *)
(* The page that talks to the actor starts with the version check of       *)
(* src/src/frontend/src/bootstrap.ts; its state is the two browser         *)
(* storages, the version.json served and the position of the current run.  *)
(***************************************************************************)
EXTENDS Integers, Sequences, FiniteSets, TLC

VARIABLES
    tickets,              \* Map<Nat, Ticket>
    ticketCounter,        \* TicketCounter
    nextTopicId,          \* Nat
    draftHelpTopics,      \* Map<Nat, HelpTopic>
    publishedHelpTopics,  \* Map<Nat, HelpTopic>
    now,                  \* the wall clock read by Time.now()
    reply,                \* the call handled last: operation, arguments, outcome
    localStorage,         \* window.localStorage: key -> value
    sessionStorage,       \* window.sessionStorage of this browser session
    deployed,             \* the version field of the /version.json served
    boot,                 \* the bootstrap run under way: position, response
    runs,                 \* how the finished runs of this session ended
    calls,                \* per caller: the call sent or being executed
    done                  \* the calls answered, in the order of the answers

browser == <<localStorage, sessionStorage, deployed, boot, runs>>

vars == <<tickets, ticketCounter, nextTopicId, draftHelpTopics,
          publishedHelpTopics, now, reply, localStorage, sessionStorage,
          deployed, boot, runs, calls, done>>

traffic == <<calls, done>>

store == <<tickets, ticketCounter, nextTopicId, draftHelpTopics,
           publishedHelpTopics>>

-----------------------------------------------------------------------------
(* Bounds of the model *)

MaxStore == 2
MaxTime == 1
MaxDesk == 3
MaxDeskTime == 1
MaxListing == 2
MaxListingTime == 1
MaxSearch == 3
MaxSearchTime == 1
MaxHelp == 2
MaxHelpTime == 1
MaxTriage == 1
MaxTriageTime == 1
MaxCounted == 2
MaxCountedTime == 2
MaxGrain == 2
MaxGrainTime == 2
MaxDay == 400
MaxLedger == 3
MaxLedgerTime == 1
MaxRuns == 3
MaxQueried == 2
MaxCallers == 2
MaxCalls == 3
MaxCallTime == 1

-----------------------------------------------------------------------------
(* Types *)

Platform == {"OneSpan", "ObserveAI", "Freshworks"}
TicketStatus == {"Submitted", "InProgress", "Resolved"}
TicketPriority == {"empty", "low", "medium", "high"}
Brand == {"AMAXTX", "ALPA", "AMAXCA", "VirtualStore"}

null == << >>
Some(v) == << v >>
Opt(S) == {null} \cup {Some(v) : v \in S}

-----------------------------------------------------------------------------
(* mo:core library operations used by the actor *)

\* Nat.toText: the decimal digits of n
RECURSIVE NatToText(_)
NatToText(n) ==
    LET digit(d) == CASE d = 0 -> "0" [] d = 1 -> "1" [] d = 2 -> "2"
                      [] d = 3 -> "3" [] d = 4 -> "4" [] d = 5 -> "5"
                      [] d = 6 -> "6" [] d = 7 -> "7" [] d = 8 -> "8"
                      [] d = 9 -> "9"
    IN  IF n < 10 THEN << digit(n) >>
        ELSE NatToText(n \div 10) \o << digit(n % 10) >>

\* Map.get: ?v for a key of the map, null otherwise
MapGet(m, k) == IF k \in DOMAIN m THEN Some(m[k]) ELSE null

\* Map.add: insert, or replace the value of an existing key
MapAdd(m, k, v) == [x \in (DOMAIN m) \cup {k} |-> IF x = k THEN v ELSE m[x]]

\* Map.remove: no effect when the key is absent
MapRemove(m, k) == [x \in (DOMAIN m) \ {k} |-> m[x]]

\* Map.size
MapSize(m) == Cardinality(DOMAIN m)

\* Map.empty
MapEmpty == [x \in {} |-> x]

\* Map.values().toArray(): the values in ascending key order
RECURSIVE MapValues(_)
MapValues(m) ==
    IF DOMAIN m = {} THEN << >>
    ELSE LET k == CHOOSE x \in DOMAIN m : \A y \in DOMAIN m : x <= y
         IN  << m[k] >> \o MapValues([x \in (DOMAIN m) \ {k} |-> m[x]])

\* the comparison with its arguments the other way round
ComesBefore_Ascending(a, b) == a.submissionTime < b.submissionTime

\* Int.compare(b.submissionTime, a.submissionTime) is #less: a goes before b
ComesBefore(a, b) == b.submissionTime < a.submissionTime

\* Array.sort with the comparison of getTickets: a stable sort, so elements
\* that compare #equal keep their relative order
RECURSIVE SortInsert(_, _)
SortInsert(sorted, t) ==
    IF sorted = << >> THEN << t >>
    ELSE IF ComesBefore(t, Head(sorted)) THEN << t >> \o sorted
    ELSE << Head(sorted) >> \o SortInsert(Tail(sorted), t)

RECURSIVE ArraySort(_)
ArraySort(a) ==
    IF a = << >> THEN << >>
    ELSE SortInsert(ArraySort(SubSeq(a, 1, Len(a) - 1)), a[Len(a)])

\* Text.toLower, character by character
CharToLower(c) ==
    CASE c = "A" -> "a" [] c = "B" -> "b" [] c = "C" -> "c" [] c = "D" -> "d"
      [] c = "E" -> "e" [] c = "F" -> "f" [] c = "G" -> "g" [] c = "H" -> "h"
      [] c = "I" -> "i" [] c = "J" -> "j" [] c = "K" -> "k" [] c = "L" -> "l"
      [] c = "M" -> "m" [] c = "N" -> "n" [] c = "O" -> "o" [] c = "P" -> "p"
      [] c = "Q" -> "q" [] c = "R" -> "r" [] c = "S" -> "s" [] c = "T" -> "t"
      [] c = "U" -> "u" [] c = "V" -> "v" [] c = "W" -> "w" [] c = "X" -> "x"
      [] c = "Y" -> "y" [] c = "Z" -> "z" [] OTHER -> c

TextToLower(t) == [k \in 1 .. Len(t) |-> CharToLower(t[k])]

\* Text.contains(t, #text p): p occurs in t as a run of consecutive characters;
\* the empty pattern occurs in every text
TextContains(t, p) ==
    \E k \in 0 .. Len(t) - Len(p) : SubSeq(t, k + 1, k + Len(p)) = p

\* Text.compare is #less: the order of the keys of a Map<Text, _>, character
\* by character in code-point order ("-" is 45, the digits are 48 to 57)
CharCode(c) ==
    CASE c = "-" -> 45 [] c = "0" -> 48 [] c = "1" -> 49 [] c = "2" -> 50
      [] c = "3" -> 51 [] c = "4" -> 52 [] c = "5" -> 53 [] c = "6" -> 54
      [] c = "7" -> 55 [] c = "8" -> 56 [] c = "9" -> 57

RECURSIVE TextLess(_, _)
TextLess(a, b) ==
    IF b = << >> THEN FALSE
    ELSE IF a = << >> THEN TRUE
    ELSE IF Head(a) = Head(b) THEN TextLess(Tail(a), Tail(b))
    ELSE CharCode(Head(a)) < CharCode(Head(b))

\* Map.toArray() of a Map<Text, _>: the (key, value) pairs in ascending key
\* order
RECURSIVE TextMapToArray(_)
TextMapToArray(m) ==
    IF DOMAIN m = {} THEN << >>
    ELSE LET k == CHOOSE x \in DOMAIN m :
                      \A y \in (DOMAIN m) \ {x} : TextLess(x, y)
         IN  << << k, m[k] >> >> \o TextMapToArray([x \in (DOMAIN m) \ {k} |-> m[x]])

-----------------------------------------------------------------------------
(* Inputs the callers draw from *)

Txt1 == << "a" >>
Txt2 == << "B", "o" >>

\* CreateTicketArgs
MkArgs(p, b, t, fw, ext, pol, att) ==
    [platform |-> p, issueDescription |-> t, officeName |-> t \o << "1" >>,
     agentName |-> t \o << "2" >>, employeeId |-> << "7" >>,
     email |-> t \o << "@" >>, freshworksEmail |-> fw, extension |-> ext,
     brand |-> b, policyNumber |-> pol, attachments |-> att]

ArgSamples ==
    { MkArgs("OneSpan", "AMAXTX", Txt1, null, null, Some(<< "9" >>), << >>),
      MkArgs("OneSpan", "ALPA", Txt2, null, Some(<< "4" >>), null, << "blob1" >>),
      MkArgs("ObserveAI", "AMAXCA", Txt1, null, null, null, << >>),
      MkArgs("Freshworks", "VirtualStore", Txt2, Some(<< "f", "@" >>), null, null,
             << "blob1", "blob2" >>) }

\* author and content of a comment
CommentSamples ==
    { [author |-> << "a" >>, content |-> << "x" >>],
      [author |-> << "B" >>, content |-> << "y" >>] }

\* HelpTopic as a caller sends it: its times are the caller's, not the store's
TopicSamples(ids) ==
    { [id |-> i, topicName |-> x.name, platform |-> x.platform, createdTime |-> 5,
       modifiedTime |-> 6, explanation |-> x.name \o << "!" >>] :
      i \in ids, x \in { [name |-> Txt1, platform |-> "OneSpan"],
                          [name |-> Txt2, platform |-> "Freshworks"] } }

\* GetTicketsArgs
FilterArgs(platforms, statuses, brands, priorities, starts, ends) ==
    [platformFilter : platforms, statusFilter : statuses, brandFilter : brands,
     priorityFilter : priorities, startDate : starts, endDate : ends]

NoFilter ==
    [platformFilter |-> null, statusFilter |-> null, brandFilter |-> null,
     priorityFilter |-> null, startDate |-> null, endDate |-> null]

-----------------------------------------------------------------------------
(* The page *)

VERSION_CHECK_KEY == "app_version"
RELOAD_GUARD_KEY == "app_reload_guard"

\* no response yet, or none any more
NoResponse == [status |-> "none", version |-> null]

\* a browser session begins: nothing in its sessionStorage, the first
\* bootstrap run about to fetch
SessionOpened ==
    /\ sessionStorage = MapEmpty
    /\ boot = [pc |-> "fetch", response |-> NoResponse]
    /\ runs = << >>

-----------------------------------------------------------------------------
(* The callers *)

Callers == 1 .. MaxCallers

\* a caller that waits for no answer
NoCall ==
    [op |-> "none", args |-> null, pc |-> "idle", ticketId |-> 0,
     displayName |-> << >>, todo |-> << >>]

NoTraffic ==
    /\ calls = [c \in Callers |-> NoCall]
    /\ done = << >>

-----------------------------------------------------------------------------
(* The actor *)

Init ==
    /\ NoTraffic
    /\ localStorage = MapEmpty
    /\ deployed = Some("v1")
    /\ SessionOpened
    /\ tickets = MapEmpty
    /\ ticketCounter = [onespanCounter |-> 1, observeAICounter |-> 1,
                        freshworksCounter |-> 1]
    /\ nextTopicId = 1
    /\ draftHelpTopics = MapEmpty
    /\ publishedHelpTopics = MapEmpty
    /\ now = 0
    /\ reply = [op |-> "none", args |-> null, trapped |-> FALSE, result |-> null]

\* a call that ran to completion and returned result
Return(op, args, result) ==
    /\ reply' = [op |-> op, args |-> args, trapped |-> FALSE, result |-> result]
    /\ UNCHANGED <<browser, traffic>>

\* Runtime.trap(msg): the call aborts and the state is as before the call
Trap(op, args, msg) ==
    /\ reply' = [op |-> op, args |-> args, trapped |-> TRUE, result |-> msg]
    /\ UNCHANGED <<store, now, browser, traffic>>

\* the wall clock moves on between two calls; it never goes back
Tick(limit) ==
    /\ now < limit
    /\ now' = now + 1
    /\ UNCHANGED <<store, reply, browser, traffic>>

-----------------------------------------------------------------------------
(* Tickets *)

\* DisplayName with the ObserveAI case reading the OneSpan counter
DisplayName_SharedCounter(platform, tc) ==
    CASE platform = "OneSpan" ->
            << "O", "S", "-" >> \o NatToText(tc.onespanCounter)
      [] platform = "ObserveAI" ->
            << "O", "A", "I", "-" >> \o NatToText(tc.onespanCounter)
      [] platform = "Freshworks" ->
            << "F", "W", "-" >> \o NatToText(tc.freshworksCounter)

\* submitTicket, the switch on args.platform: the display name
DisplayName(platform, tc) ==
    CASE platform = "OneSpan" ->
            << "O", "S", "-" >> \o NatToText(tc.onespanCounter)
      [] platform = "ObserveAI" ->
            << "O", "A", "I", "-" >> \o NatToText(tc.observeAICounter)
      [] platform = "Freshworks" ->
            << "F", "W", "-" >> \o NatToText(tc.freshworksCounter)

\* BumpCounter with the Freshworks case copying the wrong field
BumpCounter_WrongField(platform, tc) ==
    CASE platform = "OneSpan" ->
            [onespanCounter |-> tc.onespanCounter + 1,
             observeAICounter |-> tc.observeAICounter,
             freshworksCounter |-> tc.freshworksCounter]
      [] platform = "ObserveAI" ->
            [onespanCounter |-> tc.onespanCounter,
             observeAICounter |-> tc.observeAICounter + 1,
             freshworksCounter |-> tc.freshworksCounter]
      [] platform = "Freshworks" ->
            [onespanCounter |-> tc.onespanCounter,
             observeAICounter |-> tc.onespanCounter,
             freshworksCounter |-> tc.freshworksCounter + 1]

\* submitTicket, the switch on args.platform: the counter record assigned
BumpCounter(platform, tc) ==
    CASE platform = "OneSpan" ->
            [onespanCounter |-> tc.onespanCounter + 1,
             observeAICounter |-> tc.observeAICounter,
             freshworksCounter |-> tc.freshworksCounter]
      [] platform = "ObserveAI" ->
            [onespanCounter |-> tc.onespanCounter,
             observeAICounter |-> tc.observeAICounter + 1,
             freshworksCounter |-> tc.freshworksCounter]
      [] platform = "Freshworks" ->
            [onespanCounter |-> tc.onespanCounter,
             observeAICounter |-> tc.observeAICounter,
             freshworksCounter |-> tc.freshworksCounter + 1]

\* NewTicket with extension and policyNumber taken from each other's argument
NewTicket_Swapped(ticketId, displayName, args, time) ==
    [id |-> ticketId,
     displayName |-> displayName,
     platform |-> args.platform,
     issueDescription |-> args.issueDescription,
     officeName |-> args.officeName,
     agentName |-> args.agentName,
     employeeId |-> args.employeeId,
     email |-> args.email,
     freshworksEmail |-> args.freshworksEmail,
     extension |-> args.policyNumber,
     brand |-> args.brand,
     policyNumber |-> args.extension,
     attachments |-> args.attachments,
     submissionTime |-> time,
     status |-> "Submitted",
     comments |-> << >>,
     priority |-> "empty"]

\* NewTicket with ids counted from 1
NewTicket_OneBased(ticketId, displayName, args, time) ==
    [id |-> ticketId + 1,
     displayName |-> displayName,
     platform |-> args.platform,
     issueDescription |-> args.issueDescription,
     officeName |-> args.officeName,
     agentName |-> args.agentName,
     employeeId |-> args.employeeId,
     email |-> args.email,
     freshworksEmail |-> args.freshworksEmail,
     extension |-> args.extension,
     brand |-> args.brand,
     policyNumber |-> args.policyNumber,
     attachments |-> args.attachments,
     submissionTime |-> time,
     status |-> "Submitted",
     comments |-> << >>,
     priority |-> "empty"]

\* submitTicket: the record stored
NewTicket(ticketId, displayName, args, time) ==
    [id |-> ticketId,
     displayName |-> displayName,
     platform |-> args.platform,
     issueDescription |-> args.issueDescription,
     officeName |-> args.officeName,
     agentName |-> args.agentName,
     employeeId |-> args.employeeId,
     email |-> args.email,
     freshworksEmail |-> args.freshworksEmail,
     extension |-> args.extension,
     brand |-> args.brand,
     policyNumber |-> args.policyNumber,
     attachments |-> args.attachments,
     submissionTime |-> time,
     status |-> "Submitted",
     comments |-> << >>,
     priority |-> "empty"]

submitTicket(args) ==
    LET displayName == DisplayName(args.platform, ticketCounter)
        ticketId == MapSize(tickets)
        newTicket == NewTicket(ticketId, displayName, args, now)
    IN  /\ ticketCounter' = BumpCounter(args.platform, ticketCounter)
        /\ tickets' = MapAdd(tickets, ticketId, newTicket)
        /\ Return("submitTicket", args, ticketId)
        /\ UNCHANGED <<nextTopicId, draftHelpTopics, publishedHelpTopics, now>>

\* StatusUpdated that never re-opens a resolved ticket
StatusUpdated_Sticky(ticket, args) ==
    [id |-> ticket.id,
     displayName |-> ticket.displayName,
     platform |-> ticket.platform,
     issueDescription |-> ticket.issueDescription,
     officeName |-> ticket.officeName,
     agentName |-> ticket.agentName,
     employeeId |-> ticket.employeeId,
     email |-> ticket.email,
     freshworksEmail |-> ticket.freshworksEmail,
     extension |-> ticket.extension,
     brand |-> ticket.brand,
     policyNumber |-> ticket.policyNumber,
     attachments |-> ticket.attachments,
     submissionTime |-> ticket.submissionTime,
     status |-> IF ticket.status = "Resolved" THEN "Resolved" ELSE args.newStatus,
     comments |-> ticket.comments,
     priority |-> ticket.priority]

\* updateTicketStatus: the record written back
StatusUpdated(ticket, args) ==
    [id |-> ticket.id,
     displayName |-> ticket.displayName,
     platform |-> ticket.platform,
     issueDescription |-> ticket.issueDescription,
     officeName |-> ticket.officeName,
     agentName |-> ticket.agentName,
     employeeId |-> ticket.employeeId,
     email |-> ticket.email,
     freshworksEmail |-> ticket.freshworksEmail,
     extension |-> ticket.extension,
     brand |-> ticket.brand,
     policyNumber |-> ticket.policyNumber,
     attachments |-> ticket.attachments,
     submissionTime |-> ticket.submissionTime,
     status |-> args.newStatus,
     comments |-> ticket.comments,
     priority |-> ticket.priority]

\* updateTicketStatus that rejects a status the ticket already holds
updateTicketStatus_Strict(args) ==
    LET found == MapGet(tickets, args.ticketId)
    IN  IF found = null
        THEN Trap("updateTicketStatus", args, "Ticket not found")
        ELSE IF found[1].status = args.newStatus
        THEN Trap("updateTicketStatus", args, "Status unchanged")
        ELSE LET ticket == found[1]
                 updatedTicket == StatusUpdated(ticket, args)
             IN  /\ tickets' = MapAdd(tickets, ticket.id, updatedTicket)
                 /\ Return("updateTicketStatus", args, null)
                 /\ UNCHANGED <<ticketCounter, nextTopicId, draftHelpTopics,
                                publishedHelpTopics, now>>

updateTicketStatus(args) ==
    LET found == MapGet(tickets, args.ticketId)
    IN  IF found = null
        THEN Trap("updateTicketStatus", args, "Ticket not found")
        ELSE LET ticket == found[1]
                 updatedTicket == StatusUpdated(ticket, args)
             IN  /\ tickets' = MapAdd(tickets, ticket.id, updatedTicket)
                 /\ Return("updateTicketStatus", args, null)
                 /\ UNCHANGED <<ticketCounter, nextTopicId, draftHelpTopics,
                                publishedHelpTopics, now>>

\* PriorityUpdated that puts the ticket back to Submitted
PriorityUpdated_ResetStatus(ticket, args) ==
    [id |-> ticket.id,
     displayName |-> ticket.displayName,
     platform |-> ticket.platform,
     issueDescription |-> ticket.issueDescription,
     officeName |-> ticket.officeName,
     agentName |-> ticket.agentName,
     employeeId |-> ticket.employeeId,
     email |-> ticket.email,
     freshworksEmail |-> ticket.freshworksEmail,
     extension |-> ticket.extension,
     brand |-> ticket.brand,
     policyNumber |-> ticket.policyNumber,
     attachments |-> ticket.attachments,
     submissionTime |-> ticket.submissionTime,
     status |-> "Submitted",
     comments |-> ticket.comments,
     priority |-> args.newPriority]

\* updateTicketPriority: the record written back
PriorityUpdated(ticket, args) ==
    [id |-> ticket.id,
     displayName |-> ticket.displayName,
     platform |-> ticket.platform,
     issueDescription |-> ticket.issueDescription,
     officeName |-> ticket.officeName,
     agentName |-> ticket.agentName,
     employeeId |-> ticket.employeeId,
     email |-> ticket.email,
     freshworksEmail |-> ticket.freshworksEmail,
     extension |-> ticket.extension,
     brand |-> ticket.brand,
     policyNumber |-> ticket.policyNumber,
     attachments |-> ticket.attachments,
     submissionTime |-> ticket.submissionTime,
     status |-> ticket.status,
     comments |-> ticket.comments,
     priority |-> args.newPriority]

updateTicketPriority(args) ==
    LET found == MapGet(tickets, args.ticketId)
    IN  IF found = null
        THEN Trap("updateTicketPriority", args, "Ticket not found")
        ELSE LET ticket == found[1]
                 updatedTicket == PriorityUpdated(ticket, args)
             IN  /\ tickets' = MapAdd(tickets, args.ticketId, updatedTicket)
                 /\ Return("updateTicketPriority", args, null)
                 /\ UNCHANGED <<ticketCounter, nextTopicId, draftHelpTopics,
                                publishedHelpTopics, now>>

\* CommentAdded that puts the new comment first
CommentAdded_Prepend(ticket, args, time) ==
    LET newComment == [author |-> args.author, content |-> args.content,
                       timestamp |-> time]
    IN  [id |-> ticket.id,
         displayName |-> ticket.displayName,
         platform |-> ticket.platform,
         issueDescription |-> ticket.issueDescription,
         officeName |-> ticket.officeName,
         agentName |-> ticket.agentName,
         employeeId |-> ticket.employeeId,
         email |-> ticket.email,
         freshworksEmail |-> ticket.freshworksEmail,
         extension |-> ticket.extension,
         brand |-> ticket.brand,
         policyNumber |-> ticket.policyNumber,
         attachments |-> ticket.attachments,
         submissionTime |-> ticket.submissionTime,
         status |-> ticket.status,
         comments |-> << newComment >> \o ticket.comments,
         priority |-> ticket.priority]

\* CommentAdded that also refreshes submissionTime
CommentAdded_Restamp(ticket, args, time) ==
    LET newComment == [author |-> args.author, content |-> args.content,
                       timestamp |-> time]
    IN  [id |-> ticket.id,
         displayName |-> ticket.displayName,
         platform |-> ticket.platform,
         issueDescription |-> ticket.issueDescription,
         officeName |-> ticket.officeName,
         agentName |-> ticket.agentName,
         employeeId |-> ticket.employeeId,
         email |-> ticket.email,
         freshworksEmail |-> ticket.freshworksEmail,
         extension |-> ticket.extension,
         brand |-> ticket.brand,
         policyNumber |-> ticket.policyNumber,
         attachments |-> ticket.attachments,
         submissionTime |-> time,
         status |-> ticket.status,
         comments |-> ticket.comments \o << newComment >>,
         priority |-> ticket.priority]

\* addComment: the record written back
CommentAdded(ticket, args, time) ==
    LET newComment == [author |-> args.author, content |-> args.content,
                       timestamp |-> time]
    IN  [id |-> ticket.id,
         displayName |-> ticket.displayName,
         platform |-> ticket.platform,
         issueDescription |-> ticket.issueDescription,
         officeName |-> ticket.officeName,
         agentName |-> ticket.agentName,
         employeeId |-> ticket.employeeId,
         email |-> ticket.email,
         freshworksEmail |-> ticket.freshworksEmail,
         extension |-> ticket.extension,
         brand |-> ticket.brand,
         policyNumber |-> ticket.policyNumber,
         attachments |-> ticket.attachments,
         submissionTime |-> ticket.submissionTime,
         status |-> ticket.status,
         comments |-> ticket.comments \o << newComment >>,
         priority |-> ticket.priority]

\* addComment that returns normally when the ticket is missing
addComment_Soft(args) ==
    LET found == MapGet(tickets, args.ticketId)
    IN  IF found = null
        THEN /\ Return("addComment", args, null)
             /\ UNCHANGED <<store, now>>
        ELSE LET ticket == found[1]
                 updatedTicket == CommentAdded(ticket, args, now)
             IN  /\ tickets' = MapAdd(tickets, ticket.id, updatedTicket)
                 /\ Return("addComment", args, null)
                 /\ UNCHANGED <<ticketCounter, nextTopicId, draftHelpTopics,
                                publishedHelpTopics, now>>

addComment(args) ==
    LET found == MapGet(tickets, args.ticketId)
    IN  IF found = null
        THEN Trap("addComment", args, "Ticket not found")
        ELSE LET ticket == found[1]
                 updatedTicket == CommentAdded(ticket, args, now)
             IN  /\ tickets' = MapAdd(tickets, ticket.id, updatedTicket)
                 /\ Return("addComment", args, null)
                 /\ UNCHANGED <<ticketCounter, nextTopicId, draftHelpTopics,
                                publishedHelpTopics, now>>

\* TicketMatches with the end of a two-sided date range exclusive
TicketMatches_ExclusiveEnd(ticket, args) ==
    LET platformMatch == IF args.platformFilter = null THEN TRUE
                         ELSE args.platformFilter[1] = ticket.platform
        statusMatch == IF args.statusFilter = null THEN TRUE
                       ELSE args.statusFilter[1] = ticket.status
        brandMatch == IF args.brandFilter = null THEN TRUE
                      ELSE args.brandFilter[1] = ticket.brand
        priorityMatch == IF args.priorityFilter = null THEN TRUE
                         ELSE args.priorityFilter[1] = ticket.priority
        dateMatch ==
            CASE args.startDate = null /\ args.endDate = null -> TRUE
              [] args.startDate # null /\ args.endDate = null ->
                    ticket.submissionTime >= args.startDate[1]
              [] args.startDate = null /\ args.endDate # null ->
                    ticket.submissionTime <= args.endDate[1]
              [] args.startDate # null /\ args.endDate # null ->
                    /\ ticket.submissionTime >= args.startDate[1]
                    /\ ticket.submissionTime < args.endDate[1]
    IN  platformMatch /\ statusMatch /\ brandMatch /\ priorityMatch /\ dateMatch

\* getTickets: the filter function applied to one ticket
TicketMatches(ticket, args) ==
    LET platformMatch == IF args.platformFilter = null THEN TRUE
                         ELSE args.platformFilter[1] = ticket.platform
        statusMatch == IF args.statusFilter = null THEN TRUE
                       ELSE args.statusFilter[1] = ticket.status
        brandMatch == IF args.brandFilter = null THEN TRUE
                      ELSE args.brandFilter[1] = ticket.brand
        priorityMatch == IF args.priorityFilter = null THEN TRUE
                         ELSE args.priorityFilter[1] = ticket.priority
        dateMatch ==
            CASE args.startDate = null /\ args.endDate = null -> TRUE
              [] args.startDate # null /\ args.endDate = null ->
                    ticket.submissionTime >= args.startDate[1]
              [] args.startDate = null /\ args.endDate # null ->
                    ticket.submissionTime <= args.endDate[1]
              [] args.startDate # null /\ args.endDate # null ->
                    /\ ticket.submissionTime >= args.startDate[1]
                    /\ ticket.submissionTime <= args.endDate[1]
    IN  platformMatch /\ statusMatch /\ brandMatch /\ priorityMatch /\ dateMatch

\* getTickets: the array returned (Array.filter keeps the elements that
\* satisfy the function, in their order)
TicketList(tk, args) ==
    LET keep(ticket) == TicketMatches(ticket, args)
        filteredTickets == SelectSeq(MapValues(tk), keep)
        sortedTickets == ArraySort(filteredTickets)
    IN  sortedTickets

getTickets(args) ==
    /\ Return("getTickets", args, TicketList(tickets, args))
    /\ UNCHANGED <<store, now>>

\* getTicket that traps on a missing ticket as the update operations do
getTicket_Trapping(ticketId) ==
    IF ticketId \in DOMAIN tickets
    THEN /\ Return("getTicket", ticketId, MapGet(tickets, ticketId))
         /\ UNCHANGED <<store, now>>
    ELSE Trap("getTicket", ticketId, "Ticket not found")

getTicket(ticketId) ==
    /\ Return("getTicket", ticketId, MapGet(tickets, ticketId))
    /\ UNCHANGED <<store, now>>

\* SearchMatches that compares the texts as stored, without lower-casing them
SearchMatches_CaseSensitive(ticket, normalizedSearchTerm) ==
    LET matchesDisplayName ==
            TextContains(ticket.displayName, normalizedSearchTerm)
        matchesComments ==
            \E k \in 1 .. Len(ticket.comments) :
                \/ TextContains(ticket.comments[k].content, normalizedSearchTerm)
                \/ TextContains(ticket.comments[k].author, normalizedSearchTerm)
        matchesIssueDescription ==
            TextContains(ticket.issueDescription, normalizedSearchTerm)
        matchesOfficeName ==
            TextContains(ticket.officeName, normalizedSearchTerm)
        matchesAgentName ==
            TextContains(ticket.agentName, normalizedSearchTerm)
        matchesEmployeeId ==
            TextContains(ticket.employeeId, normalizedSearchTerm)
        matchesEmail ==
            TextContains(ticket.email, normalizedSearchTerm)
        matchesFreshworksEmail ==
            IF ticket.freshworksEmail # null
            THEN TextContains(ticket.freshworksEmail[1], normalizedSearchTerm)
            ELSE FALSE
    IN  \/ matchesDisplayName \/ matchesComments \/ matchesIssueDescription
        \/ matchesOfficeName \/ matchesAgentName \/ matchesEmployeeId
        \/ matchesEmail \/ matchesFreshworksEmail

\* searchTickets: the filter function applied to one ticket; comments.find
\* returns a comment (not null) exactly when some comment satisfies its function
SearchMatches(ticket, normalizedSearchTerm) ==
    LET normalizedDisplayName == TextToLower(ticket.displayName)
        matchesDisplayName ==
            TextContains(normalizedDisplayName, normalizedSearchTerm)
        matchesComments ==
            \E k \in 1 .. Len(ticket.comments) :
                LET normalizedCommentContent ==
                        TextToLower(ticket.comments[k].content)
                    normalizedAuthor == TextToLower(ticket.comments[k].author)
                IN  \/ TextContains(normalizedCommentContent, normalizedSearchTerm)
                    \/ TextContains(normalizedAuthor, normalizedSearchTerm)
        matchesIssueDescription ==
            TextContains(TextToLower(ticket.issueDescription), normalizedSearchTerm)
        matchesOfficeName ==
            TextContains(TextToLower(ticket.officeName), normalizedSearchTerm)
        matchesAgentName ==
            TextContains(TextToLower(ticket.agentName), normalizedSearchTerm)
        matchesEmployeeId ==
            TextContains(TextToLower(ticket.employeeId), normalizedSearchTerm)
        matchesEmail ==
            TextContains(TextToLower(ticket.email), normalizedSearchTerm)
        matchesFreshworksEmail ==
            IF ticket.freshworksEmail # null
            THEN TextContains(TextToLower(ticket.freshworksEmail[1]),
                              normalizedSearchTerm)
            ELSE FALSE
    IN  \/ matchesDisplayName \/ matchesComments \/ matchesIssueDescription
        \/ matchesOfficeName \/ matchesAgentName \/ matchesEmployeeId
        \/ matchesEmail \/ matchesFreshworksEmail

\* SearchList that sorts its matches as getTickets does
SearchList_Sorted(tk, searchTerm) ==
    LET normalizedSearchTerm == TextToLower(searchTerm)
        keep(ticket) == SearchMatches(ticket, normalizedSearchTerm)
    IN  ArraySort(SelectSeq(MapValues(tk), keep))

\* searchTickets: the array returned, the matches in the order of the map
SearchList(tk, searchTerm) ==
    LET normalizedSearchTerm == TextToLower(searchTerm)
        keep(ticket) == SearchMatches(ticket, normalizedSearchTerm)
        filteredTickets == SelectSeq(MapValues(tk), keep)
    IN  filteredTickets

searchTickets(searchTerm) ==
    /\ Return("searchTickets", searchTerm, SearchList(tickets, searchTerm))
    /\ UNCHANGED <<store, now>>

-----------------------------------------------------------------------------
(* Analytics *)

\* 24 * 60 * 60 * 1000000000, the length of a day, counted in readings of the
\* model's clock: the clock of the model reads half days
DayLength == 2

\* formatDate, the loop over monthDays: the days left and the month count
\* after the months given have been gone through
RECURSIVE MonthLoop(_, _, _)
MonthLoop(monthDays, remainingDays, month) ==
    IF monthDays = << >> THEN [remainingDays |-> remainingDays, month |-> month]
    ELSE IF remainingDays >= Head(monthDays)
    THEN MonthLoop(Tail(monthDays), remainingDays - Head(monthDays), month + 1)
    ELSE MonthLoop(Tail(monthDays), remainingDays, month)

formatDate(timestamp) ==
    LET daysSinceEpoch == timestamp \div DayLength
        year == 1970 + (daysSinceEpoch \div 365)
        daysInCurrentYear == daysSinceEpoch % 365
        monthDays == << 31, 28, 31, 30, 31, 30, 31, 31, 30, 31, 30, 31 >>
        after == MonthLoop(monthDays, daysInCurrentYear, 0)
        day == after.remainingDays + 1
    IN  NatToText(year) \o << "-" >> \o NatToText(after.month) \o << "-" >>
          \o NatToText(day)

\* getPeriodKey with a key per month for the month granularity
getPeriodKey_Monthly(timestamp, granularity) ==
    CASE granularity = "day" -> formatDate(timestamp)
      [] granularity = "week" -> formatDate(timestamp)
      [] granularity = "month" ->
            LET date == formatDate(timestamp)
                dash == CHOOSE k \in 6 .. Len(date) : date[k] = "-"
            IN  SubSeq(date, 1, dash - 1)

getPeriodKey(timestamp, granularity) ==
    CASE granularity = "day" -> formatDate(timestamp)
      [] granularity = "week" -> formatDate(timestamp)
      [] granularity = "month" -> formatDate(timestamp)

\* CountTicket that starts the entry of a period afresh at every ticket
CountTicket_Overwrite(periodMap, ticket, granularity) ==
    LET period == getPeriodKey(ticket.submissionTime, granularity)
    IN  CASE ticket.platform = "OneSpan" ->
                MapAdd(periodMap, period,
                       [onespan |-> 1, observeAI |-> 0, freshworks |-> 0,
                        total |-> 1])
          [] ticket.platform = "ObserveAI" ->
                MapAdd(periodMap, period,
                       [onespan |-> 0, observeAI |-> 1, freshworks |-> 0,
                        total |-> 1])
          [] ticket.platform = "Freshworks" ->
                MapAdd(periodMap, period,
                       [onespan |-> 0, observeAI |-> 0, freshworks |-> 1,
                        total |-> 1])

\* getTicketAnalytics, the body of the loop: the period map after one ticket
CountTicket(periodMap, ticket, granularity) ==
    LET period == getPeriodKey(ticket.submissionTime, granularity)
        found == MapGet(periodMap, period)
    IN  IF found = null
        THEN CASE ticket.platform = "OneSpan" ->
                    MapAdd(periodMap, period,
                           [onespan |-> 1, observeAI |-> 0, freshworks |-> 0,
                            total |-> 1])
               [] ticket.platform = "ObserveAI" ->
                    MapAdd(periodMap, period,
                           [onespan |-> 0, observeAI |-> 1, freshworks |-> 0,
                            total |-> 1])
               [] ticket.platform = "Freshworks" ->
                    MapAdd(periodMap, period,
                           [onespan |-> 0, observeAI |-> 0, freshworks |-> 1,
                            total |-> 1])
        ELSE LET counts == found[1]
             IN  CASE ticket.platform = "OneSpan" ->
                        MapAdd(periodMap, period,
                               [onespan |-> counts.onespan + 1,
                                observeAI |-> counts.observeAI,
                                freshworks |-> counts.freshworks,
                                total |-> counts.total + 1])
                   [] ticket.platform = "ObserveAI" ->
                        MapAdd(periodMap, period,
                               [onespan |-> counts.onespan,
                                observeAI |-> counts.observeAI + 1,
                                freshworks |-> counts.freshworks,
                                total |-> counts.total + 1])
                   [] ticket.platform = "Freshworks" ->
                        MapAdd(periodMap, period,
                               [onespan |-> counts.onespan,
                                observeAI |-> counts.observeAI,
                                freshworks |-> counts.freshworks + 1,
                                total |-> counts.total + 1])

\* getTicketAnalytics, the loop over filteredTickets
RECURSIVE CountTickets(_, _, _)
CountTickets(periodMap, filteredTickets, granularity) ==
    IF filteredTickets = << >> THEN periodMap
    ELSE CountTickets(CountTicket(periodMap, Head(filteredTickets), granularity),
                      Tail(filteredTickets), granularity)

\* TicketAnalytics with an empty periods array when no ticket is counted
TicketAnalytics_NoPlaceholder(tk, req, time) ==
    LET inRange(ticket) == /\ ticket.submissionTime >= req.startTime
                           /\ ticket.submissionTime <= req.endTime
        filteredTickets == SelectSeq(MapValues(tk), inRange)
        periodMap == CountTickets(MapEmpty, filteredTickets, req.granularity)
    IN  [periods |-> TextMapToArray(periodMap)]

\* getTicketAnalytics: the record returned
TicketAnalytics(tk, req, time) ==
    LET inRange(ticket) == /\ ticket.submissionTime >= req.startTime
                           /\ ticket.submissionTime <= req.endTime
        filteredTickets == SelectSeq(MapValues(tk), inRange)
        periodMap == CountTickets(MapEmpty, filteredTickets, req.granularity)
    IN  IF DOMAIN periodMap = {}
        THEN LET emptyPeriod == << formatDate(time),
                                   [onespan |-> 0, observeAI |-> 0,
                                    freshworks |-> 0, total |-> 0] >>
             IN  [periods |-> << emptyPeriod >>]
        ELSE LET periodsArray == TextMapToArray(periodMap)
             IN  [periods |-> periodsArray]

getTicketAnalytics(req) ==
    /\ Return("getTicketAnalytics", req, TicketAnalytics(tickets, req, now))
    /\ UNCHANGED <<store, now>>

-----------------------------------------------------------------------------
(* Help topics *)

\* NewTopic that keeps the creation time the caller sent
NewTopic_TrustInput(newId, topic, time) ==
    [id |-> newId,
     topicName |-> topic.topicName,
     platform |-> topic.platform,
     createdTime |-> topic.createdTime,
     modifiedTime |-> time,
     explanation |-> topic.explanation]

\* saveHelpTopic, case null: the record stored
NewTopic(newId, topic, time) ==
    [id |-> newId,
     topicName |-> topic.topicName,
     platform |-> topic.platform,
     createdTime |-> time,
     modifiedTime |-> time,
     explanation |-> topic.explanation]

\* UpdatedTopic that stamps the creation time again
UpdatedTopic_Recreate(existing, topic, time) ==
    [id |-> existing.id,
     topicName |-> topic.topicName,
     platform |-> topic.platform,
     createdTime |-> time,
     modifiedTime |-> time,
     explanation |-> topic.explanation]

\* saveHelpTopic, case ?existing: the record written back
UpdatedTopic(existing, topic, time) ==
    [id |-> existing.id,
     topicName |-> topic.topicName,
     platform |-> topic.platform,
     createdTime |-> existing.createdTime,
     modifiedTime |-> time,
     explanation |-> topic.explanation]

\* saveHelpTopic that also writes the topic into the published collection
saveHelpTopic_WriteThrough(topic) ==
    LET found == MapGet(draftHelpTopics, topic.id)
    IN  IF found = null
        THEN LET newId == nextTopicId
                 newTopic == NewTopic(newId, topic, now)
             IN  /\ nextTopicId' = nextTopicId + 1
                 /\ draftHelpTopics' = MapAdd(draftHelpTopics, newId, newTopic)
                 /\ publishedHelpTopics' =
                        MapAdd(publishedHelpTopics, newId, newTopic)
                 /\ Return("saveHelpTopic", topic, newId)
                 /\ UNCHANGED <<tickets, ticketCounter, now>>
        ELSE LET existing == found[1]
                 updatedTopic == UpdatedTopic(existing, topic, now)
             IN  /\ draftHelpTopics' =
                        MapAdd(draftHelpTopics, existing.id, updatedTopic)
                 /\ publishedHelpTopics' =
                        MapAdd(publishedHelpTopics, existing.id, updatedTopic)
                 /\ Return("saveHelpTopic", topic, existing.id)
                 /\ UNCHANGED <<tickets, ticketCounter, nextTopicId, now>>

\* saveHelpTopic that stores a topic whose id is no draft key under the id
\* the caller sent, unless that is the new-topic id 0
saveHelpTopic_Upsert(topic) ==
    LET found == MapGet(draftHelpTopics, topic.id)
    IN  IF found = null
        THEN LET newId == IF topic.id = 0 THEN nextTopicId ELSE topic.id
                 newTopic == NewTopic(newId, topic, now)
             IN  /\ nextTopicId' = IF topic.id = 0 THEN nextTopicId + 1
                                   ELSE nextTopicId
                 /\ draftHelpTopics' = MapAdd(draftHelpTopics, newId, newTopic)
                 /\ Return("saveHelpTopic", topic, newId)
                 /\ UNCHANGED <<tickets, ticketCounter, publishedHelpTopics, now>>
        ELSE LET existing == found[1]
                 updatedTopic == UpdatedTopic(existing, topic, now)
             IN  /\ draftHelpTopics' =
                        MapAdd(draftHelpTopics, existing.id, updatedTopic)
                 /\ Return("saveHelpTopic", topic, existing.id)
                 /\ UNCHANGED <<tickets, ticketCounter, nextTopicId,
                                publishedHelpTopics, now>>

saveHelpTopic(topic) ==
    LET found == MapGet(draftHelpTopics, topic.id)
    IN  IF found = null
        THEN LET newId == nextTopicId
                 newTopic == NewTopic(newId, topic, now)
             IN  /\ nextTopicId' = nextTopicId + 1
                 /\ draftHelpTopics' = MapAdd(draftHelpTopics, newId, newTopic)
                 /\ Return("saveHelpTopic", topic, newId)
                 /\ UNCHANGED <<tickets, ticketCounter, publishedHelpTopics, now>>
        ELSE LET existing == found[1]
                 updatedTopic == UpdatedTopic(existing, topic, now)
             IN  /\ draftHelpTopics' =
                        MapAdd(draftHelpTopics, existing.id, updatedTopic)
                 /\ Return("saveHelpTopic", topic, existing.id)
                 /\ UNCHANGED <<tickets, ticketCounter, nextTopicId,
                                publishedHelpTopics, now>>

\* deleteHelpTopic that also withdraws the published copy
deleteHelpTopic_Cascade(topicId) ==
    /\ draftHelpTopics' = MapRemove(draftHelpTopics, topicId)
    /\ publishedHelpTopics' = MapRemove(publishedHelpTopics, topicId)
    /\ Return("deleteHelpTopic", topicId, null)
    /\ UNCHANGED <<tickets, ticketCounter, nextTopicId, now>>

deleteHelpTopic(topicId) ==
    /\ draftHelpTopics' = MapRemove(draftHelpTopics, topicId)
    /\ Return("deleteHelpTopic", topicId, null)
    /\ UNCHANGED <<tickets, ticketCounter, nextTopicId, publishedHelpTopics, now>>

\* publishHelpContent: the published map after clear() and the loop over the
\* draft entries
Published(drafts, time) ==
    [id \in DOMAIN drafts |->
        [id |-> drafts[id].id,
         topicName |-> drafts[id].topicName,
         platform |-> drafts[id].platform,
         createdTime |-> drafts[id].createdTime,
         modifiedTime |-> time,
         explanation |-> drafts[id].explanation]]

\* publishHelpContent without the clear(): the snapshot is merged into the
\* published collection
publishHelpContent_Merge ==
    /\ publishedHelpTopics' =
          [id \in (DOMAIN publishedHelpTopics) \cup (DOMAIN draftHelpTopics) |->
              IF id \in DOMAIN draftHelpTopics
              THEN Published(draftHelpTopics, now)[id]
              ELSE publishedHelpTopics[id]]
    /\ Return("publishHelpContent", null, null)
    /\ UNCHANGED <<tickets, ticketCounter, nextTopicId, draftHelpTopics, now>>

publishHelpContent ==
    /\ publishedHelpTopics' = Published(draftHelpTopics, now)
    /\ Return("publishHelpContent", null, null)
    /\ UNCHANGED <<tickets, ticketCounter, nextTopicId, draftHelpTopics, now>>

\* getHelpTopics that publishes the drafts before it answers
getHelpTopics_Publishing ==
    /\ publishedHelpTopics' = Published(draftHelpTopics, now)
    /\ Return("getHelpTopics", null, MapValues(publishedHelpTopics'))
    /\ UNCHANGED <<tickets, ticketCounter, nextTopicId, draftHelpTopics, now>>

getHelpTopics ==
    /\ Return("getHelpTopics", null, MapValues(publishedHelpTopics))
    /\ UNCHANGED <<store, now>>

getHelpTopicsDraft ==
    /\ Return("getHelpTopicsDraft", null, MapValues(draftHelpTopics))
    /\ UNCHANGED <<store, now>>

-----------------------------------------------------------------------------
(* The callers: every operation that changes the store, the listing and    *)
(* the lookups, in any order, while the store stays small.  The size of the *)
(* store counts its tickets, their comments, the status and priority fields *)
(* that have left their initial value, and the topics ever created.         *)
(* searchTickets and getTicketAnalytics, which change nothing, have their   *)
(* callers further down.                                                    *)

RECURSIVE WeightOf(_, _)
WeightOf(tk, ids) ==
    IF ids = {} THEN 0
    ELSE LET i == CHOOSE x \in ids : TRUE
         IN  1 + Len(tk[i].comments)
               + (IF tk[i].status = "Submitted" THEN 0 ELSE 1)
               + (IF tk[i].priority = "empty" THEN 0 ELSE 1)
               + WeightOf(tk, ids \ {i})

TicketsWeight(tk) == WeightOf(tk, DOMAIN tk)

StoreSize == TicketsWeight(tickets) + (nextTopicId - 1)

\* the ids of the stored tickets and the first id that is not stored; the
\* new-topic id 0 and every topic id assigned so far
TicketIds == 0 .. MapSize(tickets)
TopicIds == 0 .. nextTopicId - 1

SubmitTicket(room, samples) ==
    /\ room
    /\ \E args \in samples : submitTicket(args)

UpdateTicketStatus(room, ids, statuses) ==
    \E id \in ids, s \in statuses :
        /\ IF id \in DOMAIN tickets
           THEN s = "Submitted" \/ tickets[id].status # "Submitted" \/ room
           ELSE s = "Resolved"
        /\ updateTicketStatus([ticketId |-> id, newStatus |-> s])

UpdateTicketPriority(room, ids, priorities) ==
    \E id \in ids, p \in priorities :
        /\ IF id \in DOMAIN tickets
           THEN p = "empty" \/ tickets[id].priority # "empty" \/ room
           ELSE p = "high"
        /\ updateTicketPriority([ticketId |-> id, newPriority |-> p])

AddComment(room, ids) ==
    \E id \in ids, c \in CommentSamples :
        /\ IF id \in DOMAIN tickets THEN room ELSE c.author = << "a" >>
        /\ addComment([ticketId |-> id, author |-> c.author, content |-> c.content])

GetTickets(filters) ==
    \E args \in filters : getTickets(args)

GetTicket(ids) ==
    \E id \in ids : getTicket(id)

SearchTickets(terms) ==
    \E searchTerm \in terms : searchTickets(searchTerm)

GetTicketAnalytics(requests) ==
    \E req \in requests : getTicketAnalytics(req)

SaveHelpTopic(room, ids) ==
    \E topic \in TopicSamples(ids) :
        /\ IF topic.id \in DOMAIN draftHelpTopics THEN TRUE ELSE room
        /\ saveHelpTopic(topic)

DeleteHelpTopic(ids) ==
    \E id \in ids : deleteHelpTopic(id)

WholeArgs == { a \in ArgSamples : a.brand \in {"AMAXTX", "VirtualStore"} }

Next ==
    \/ SubmitTicket(StoreSize < MaxStore, WholeArgs)
    \/ UpdateTicketStatus(StoreSize < MaxStore, TicketIds, TicketStatus)
    \/ UpdateTicketPriority(StoreSize < MaxStore, TicketIds, TicketPriority)
    \/ AddComment(StoreSize < MaxStore, TicketIds)
    \/ GetTickets({NoFilter})
    \/ GetTicket(TicketIds)
    \/ SaveHelpTopic(StoreSize < MaxStore, TopicIds)
    \/ DeleteHelpTopic(TopicIds)
    \/ publishHelpContent
    \/ getHelpTopics
    \/ getHelpTopicsDraft
    \/ Tick(MaxTime)

Spec == Init /\ [][Next]_vars

-----------------------------------------------------------------------------
(* The ticket desk alone: submissions, triage, comments and listings, on a  *)
(* larger ticket collection.                                                *)

NextDesk ==
    \/ SubmitTicket(TicketsWeight(tickets) < MaxDesk, ArgSamples)
    \/ UpdateTicketStatus(TicketsWeight(tickets) < MaxDesk, DOMAIN tickets,
                          TicketStatus)
    \/ UpdateTicketPriority(TicketsWeight(tickets) < MaxDesk, DOMAIN tickets,
                            TicketPriority)
    \/ AddComment(TicketsWeight(tickets) < MaxDesk, DOMAIN tickets)
    \/ GetTickets({NoFilter})
    \/ Tick(MaxDeskTime)

SpecDesk == Init /\ [][NextDesk]_vars

-----------------------------------------------------------------------------
(* Listings: a small ticket collection, listed under every combination of   *)
(* filters.                                                                 *)

ListingStatuses == {"Submitted", "Resolved"}
ListingPriorities == {"empty", "high"}
ProbeTimes == {0, 1}

AllFilters ==
    FilterArgs(Opt(Platform), Opt(ListingStatuses), Opt(Brand),
               Opt(ListingPriorities), Opt(ProbeTimes), Opt(ProbeTimes))

NextListing ==
    \/ SubmitTicket(TicketsWeight(tickets) < MaxListing, ArgSamples)
    \/ UpdateTicketStatus(TicketsWeight(tickets) < MaxListing, DOMAIN tickets,
                          ListingStatuses)
    \/ UpdateTicketPriority(TicketsWeight(tickets) < MaxListing, DOMAIN tickets,
                            ListingPriorities)
    \/ GetTickets({NoFilter})
    \/ Tick(MaxListingTime)

SpecListing == Init /\ [][NextListing]_vars

-----------------------------------------------------------------------------
(* Searches: tickets are submitted, triaged and commented, and searched for *)
(* terms that occur in a searched field, in another field, or nowhere.      *)

SearchTerms ==
    { << >>,                          \* the empty term
      << "a" >>,                      \* descriptions, e-mails, authors, OAI-n
      << "B", "O" >>,                 \* Txt2 in another case
      << "o", "S", "-" >>,            \* the OneSpan display names
      << "f", "@" >>,                 \* the Freshworks e-mail
      << "X" >>,                      \* a comment's content in another case
      << "9" >>,                      \* a policy number
      << "4" >>,                      \* an extension
      << "a", "l", "p", "a" >> }      \* a brand

\* the terms the callers send; the answers to the others are SearchList of
\* the same store
CalledTerms == { << >>, << "a" >> }

\* the submissions that carry the texts searched for
SearchArgs == { a \in ArgSamples : a.platform # "ObserveAI" }

NextSearch ==
    \/ SubmitTicket(TicketsWeight(tickets) + 1 < MaxSearch, SearchArgs)
    \/ UpdateTicketStatus(TicketsWeight(tickets) < MaxSearch, DOMAIN tickets,
                          ListingStatuses)
    \/ UpdateTicketPriority(TicketsWeight(tickets) < MaxSearch, DOMAIN tickets,
                            ListingPriorities)
    \/ AddComment(TicketsWeight(tickets) < MaxSearch, DOMAIN tickets)
    \/ SearchTickets(CalledTerms)
    \/ Tick(MaxSearchTime)

SpecSearch == Init /\ [][NextSearch]_vars

-----------------------------------------------------------------------------
(* The help centre: topics are drafted, edited, deleted and published, next *)
(* to a ticket collection that must stay as it is.  The callers send the    *)
(* new-topic id 0, every id assigned so far and the first id not assigned.  *)

HelpIds == 0 .. nextTopicId

\* the topics ever created and the tickets stored
HelpSize == (nextTopicId - 1) + MapSize(tickets)

NextHelp ==
    \/ SubmitTicket(HelpSize < MaxHelp, WholeArgs)
    \/ SaveHelpTopic(HelpSize < MaxHelp, HelpIds)
    \/ DeleteHelpTopic(HelpIds)
    \/ publishHelpContent
    \/ getHelpTopics
    \/ getHelpTopicsDraft
    \/ Tick(MaxHelpTime)

SpecHelp == Init /\ [][NextHelp]_vars

-----------------------------------------------------------------------------
(* Analytics: tickets of the three platforms are submitted over several     *)
(* days and counted over every window of the clock readings, the windows    *)
(* that end before they start included.                                     *)

Granularity == {"day", "week", "month"}

\* the first and the second half of the first day, and the day after
WindowTimes == {0, 1, 2}

AnalyticsRequests ==
    [startTime : WindowTimes, endTime : WindowTimes, granularity : Granularity]

CountedArgs == { a \in ArgSamples : a.brand # "ALPA" }

NextAnalytics ==
    \/ SubmitTicket(MapSize(tickets) < MaxCounted, CountedArgs)
    \/ GetTicketAnalytics(AnalyticsRequests)
    \/ Tick(MaxCountedTime)

SpecAnalytics == Init /\ [][NextAnalytics]_vars

-----------------------------------------------------------------------------
(* Triage: a few tickets, moved between all statuses and all priorities     *)
(* without any limit on the number of moves.                                *)

NextTriage ==
    \/ SubmitTicket(MapSize(tickets) < MaxTriage, WholeArgs)
    \/ UpdateTicketStatus(TRUE, DOMAIN tickets, TicketStatus)
    \/ UpdateTicketPriority(TRUE, DOMAIN tickets, TicketPriority)
    \/ Tick(MaxTriageTime)

SpecTriage == Init /\ [][NextTriage]_vars

-----------------------------------------------------------------------------
(* Granularities: the same requests, on tickets of two platforms.           *)

NextGranularity ==
    \/ SubmitTicket(MapSize(tickets) < MaxGrain, WholeArgs)
    \/ GetTicketAnalytics(AnalyticsRequests)
    \/ Tick(MaxGrainTime)

SpecGranularity == Init /\ [][NextGranularity]_vars

-----------------------------------------------------------------------------
(* Ledger: the ticket map under every operation that writes it.             *)

NextLedger ==
    \/ SubmitTicket(TicketsWeight(tickets) < MaxLedger, WholeArgs)
    \/ UpdateTicketStatus(TicketsWeight(tickets) < MaxLedger, DOMAIN tickets,
                          TicketStatus)
    \/ UpdateTicketPriority(TicketsWeight(tickets) < MaxLedger, DOMAIN tickets,
                            TicketPriority)
    \/ AddComment(TicketsWeight(tickets) < MaxLedger, DOMAIN tickets)
    \/ Tick(MaxLedgerTime)

SpecLedger == Init /\ [][NextLedger]_vars

-----------------------------------------------------------------------------
(* Queries: the six queries, asked again and again between submissions,     *)
(* saves of new topics and publications, at the clock readings of the first *)
(* day and at the first of the next.                                        *)

QueryFilters ==
    FilterArgs({null}, Opt({"Submitted"}), {null}, {null}, {null}, {null})

\* the first day, and a window that ends before it starts
QueryRequests ==
    [startTime : {0, 2}, endTime : {1}, granularity : {"day"}]

\* the tickets stored and the topics ever created
QuerySize == MapSize(tickets) + (nextTopicId - 1)

NextQueries ==
    \/ SubmitTicket(QuerySize < MaxQueried, WholeArgs)
    \/ SaveHelpTopic(QuerySize < MaxQueried, {0})
    \/ publishHelpContent
    \/ GetTickets(QueryFilters)
    \/ GetTicket(TicketIds)
    \/ SearchTickets(CalledTerms)
    \/ getHelpTopics
    \/ getHelpTopicsDraft
    \/ GetTicketAnalytics(QueryRequests)
    \/ Tick(DayLength)

SpecQueries == Init /\ [][NextQueries]_vars

-----------------------------------------------------------------------------
(* Dates: formatDate alone, applied to every clock reading of the first     *)
(* 365-day block and of the beginning of the second.                        *)

InitDates ==
    /\ NoTraffic
    /\ localStorage = MapEmpty
    /\ deployed = Some("v1")
    /\ SessionOpened
    /\ tickets = MapEmpty
    /\ ticketCounter = [onespanCounter |-> 1, observeAICounter |-> 1,
                        freshworksCounter |-> 1]
    /\ nextTopicId = 1
    /\ draftHelpTopics = MapEmpty
    /\ publishedHelpTopics = MapEmpty
    /\ now \in 0 .. (MaxDay + 1) * DayLength - 1
    /\ reply = [op |-> "none", args |-> null, trapped |-> FALSE, result |-> null]

FormatDate ==
    /\ Return("formatDate", now, formatDate(now))
    /\ UNCHANGED <<store, now>>

NextDates == FormatDate

SpecDates == InitDates /\ [][NextDates]_vars

-----------------------------------------------------------------------------
(* Bootstrap: the version check that runs before the application is         *)
(* loaded (bootstrap.ts).  A run awaits the fetch of /version.json and then *)
(* goes through the rest without a break.  The page of one browser session  *)
(* is loaded again and again, by the reload of the version check or by the  *)
(* user; meanwhile new versions are deployed and other tabs store the       *)
(* version they saw.                                                        *)

Versions == {"v1", "v2"}

\* what the awaited fetch and response.json() can come to: fetch rejects,
\* the status is not ok, the body is no JSON, or the document served
Responses ==
    {[status |-> s, version |-> null] : s \in {"rejected", "notOk", "unparsable"}}
      \cup {[status |-> "ok", version |-> deployed]}

\* the storage call of the run that throws (storage blocked or full), if any
StorageFaults ==
    {"none", "getItem", "sessionStorage.setItem", "localStorage.setItem"}

fetch ==
    /\ boot.pc = "fetch"
    /\ \E response \in Responses :
           boot' = [pc |-> "fetched", response |-> response]
    /\ UNCHANGED <<store, now, reply, traffic, localStorage, sessionStorage, deployed,
                   runs>>

\* loadApp(): the application is imported
loadApp ==
    /\ boot' = [pc |-> "app", response |-> NoResponse]
    /\ runs' = Append(runs, "app")

\* window.location.reload()
reload ==
    /\ boot' = [pc |-> "reload", response |-> NoResponse]
    /\ runs' = Append(runs, "reload")

\* the reload condition without the session guard
ShouldReload_Unguarded(lastSeenVersion, currentVersion, reloadGuard) ==
    /\ lastSeenVersion # null
    /\ lastSeenVersion # Some(currentVersion)

\* lastSeenVersion && lastSeenVersion !== currentVersion && !reloadGuard
ShouldReload(lastSeenVersion, currentVersion, reloadGuard) ==
    /\ lastSeenVersion # null
    /\ lastSeenVersion # Some(currentVersion)
    /\ reloadGuard = null

\* bootstrap() from the response on
bootstrap ==
    /\ boot.pc = "fetched"
    /\ IF boot.response.status # "ok"
       THEN loadApp /\ UNCHANGED <<localStorage, sessionStorage>>
       ELSE \E throws \in StorageFaults :
         LET currentVersion == IF boot.response.version = null THEN "unknown"
                               ELSE boot.response.version[1]
             lastSeenVersion == MapGet(localStorage, VERSION_CHECK_KEY)
             reloadGuard == MapGet(sessionStorage, RELOAD_GUARD_KEY)
             updates == lastSeenVersion = null
                          \/ lastSeenVersion = Some(currentVersion)
             clears == reloadGuard # null /\ reloadGuard = Some(currentVersion)
         IN  IF throws = "getItem"
             THEN loadApp /\ UNCHANGED <<localStorage, sessionStorage>>
             ELSE IF ShouldReload(lastSeenVersion, currentVersion, reloadGuard)
             THEN IF throws = "sessionStorage.setItem"
                  THEN loadApp /\ UNCHANGED <<localStorage, sessionStorage>>
                  ELSE IF throws = "localStorage.setItem"
                  THEN /\ sessionStorage' =
                              MapAdd(sessionStorage, RELOAD_GUARD_KEY, currentVersion)
                       /\ loadApp
                       /\ UNCHANGED localStorage
                  ELSE /\ sessionStorage' =
                              MapAdd(sessionStorage, RELOAD_GUARD_KEY, currentVersion)
                       /\ localStorage' =
                              MapAdd(localStorage, VERSION_CHECK_KEY, currentVersion)
                       /\ reload
             ELSE IF updates /\ throws = "localStorage.setItem"
                  THEN loadApp /\ UNCHANGED <<localStorage, sessionStorage>>
                  ELSE /\ localStorage' =
                              IF updates
                              THEN MapAdd(localStorage, VERSION_CHECK_KEY, currentVersion)
                              ELSE localStorage
                       /\ sessionStorage' =
                              IF clears
                              THEN MapRemove(sessionStorage, RELOAD_GUARD_KEY)
                              ELSE sessionStorage
                       /\ loadApp
    /\ UNCHANGED <<store, now, reply, traffic, deployed>>

\* the browser loads the page again after reload(): bootstrap() starts anew
Reloaded ==
    /\ boot.pc = "reload"
    /\ Len(runs) < MaxRuns
    /\ boot' = [pc |-> "fetch", response |-> NoResponse]
    /\ UNCHANGED <<store, now, reply, traffic, localStorage, sessionStorage, deployed,
                   runs>>

\* the user loads the page again in the same session
Revisit ==
    /\ boot.pc = "app"
    /\ Len(runs) < MaxRuns
    /\ boot' = [pc |-> "fetch", response |-> NoResponse]
    /\ UNCHANGED <<store, now, reply, traffic, localStorage, sessionStorage, deployed,
                   runs>>

\* another version.json is deployed, with or without a version field
Deploy ==
    /\ \E version \in Opt(Versions) :
           /\ version # deployed
           /\ deployed' = version
    /\ UNCHANGED <<store, now, reply, traffic, localStorage, sessionStorage, boot, runs>>

\* the page in another tab stores the version it has seen
OtherTab ==
    /\ \E version \in Versions \cup {"unknown"} :
           /\ MapGet(localStorage, VERSION_CHECK_KEY) # Some(version)
           /\ localStorage' = MapAdd(localStorage, VERSION_CHECK_KEY, version)
    /\ UNCHANGED <<store, now, reply, traffic, sessionStorage, deployed, boot, runs>>

InitBootstrap ==
    /\ tickets = MapEmpty
    /\ ticketCounter = [onespanCounter |-> 1, observeAICounter |-> 1,
                        freshworksCounter |-> 1]
    /\ nextTopicId = 1
    /\ draftHelpTopics = MapEmpty
    /\ publishedHelpTopics = MapEmpty
    /\ now = 0
    /\ reply = [op |-> "none", args |-> null, trapped |-> FALSE, result |-> null]
    /\ NoTraffic
    /\ localStorage = MapEmpty
    /\ deployed \in Opt(Versions)
    /\ SessionOpened

NextBootstrap ==
    \/ fetch
    \/ bootstrap
    \/ Reloaded
    \/ Revisit
    \/ Deploy
    \/ OtherTab

\* a fetch under way settles, and the run goes on once it has
SpecBootstrap ==
    InitBootstrap /\ [][NextBootstrap]_vars /\ WF_vars(fetch) /\ WF_vars(bootstrap)

-----------------------------------------------------------------------------
(* Concurrent callers: calls are sent at any time, the actor takes one      *)
(* message at a time and runs it to its end.  submitTicket and              *)
(* publishHelpContent are followed statement by statement, so that what an  *)
(* interleaving would do to them is there to be seen.                       *)

\* the calls the callers send
CallSamples ==
    {[op |-> "submitTicket", args |-> a] : a \in WholeArgs}
      \cup {[op |-> "saveHelpTopic", args |-> t] : t \in TopicSamples({0})}
      \cup {[op |-> "publishHelpContent", args |-> null],
            [op |-> "getHelpTopics", args |-> null]}

\* the callers whose call the actor has taken up and not answered
Running == { c \in Callers : calls[c].pc \notin {"idle", "sent"} }

\* the callers that wait for an answer
Waiting == { c \in Callers : calls[c].pc # "idle" }

\* an actor that takes up the next message while one is being executed
ActorIdle_Reentrant == TRUE

\* the actor executes no message: it is free to take up the next one
ActorIdle == Running = {}

\* the callers are alike: the one that sends is the first that is free
Send(c) ==
    /\ calls[c].pc = "idle"
    /\ \A d \in Callers : d < c => calls[d].pc # "idle"
    /\ Len(done) + Cardinality(Waiting) < MaxCalls
    /\ \E call \in CallSamples :
           calls' = [calls EXCEPT ![c] =
                        [NoCall EXCEPT !.op = call.op, !.args = call.args,
                                       !.pc = "sent"]]
    /\ UNCHANGED <<store, now, reply, browser, done>>

Accept(c) ==
    /\ calls[c].pc = "sent"
    /\ ActorIdle
    /\ calls' = [calls EXCEPT ![c].pc = "start"]
    /\ UNCHANGED <<store, now, reply, browser, done>>

\* the answer goes out and the message is over
Finish(c, result) ==
    /\ calls' = [calls EXCEPT ![c] = NoCall]
    /\ done' = Append(done, [op |-> calls[c].op, args |-> calls[c].args,
                             time |-> now, result |-> result])
    /\ reply' = [op |-> calls[c].op, args |-> calls[c].args, trapped |-> FALSE,
                 result |-> result]

\* submitTicket up to let ticketId = tickets.size()
SubmitBegin(c) ==
    /\ calls[c].op = "submitTicket"
    /\ calls[c].pc = "start"
    /\ ticketCounter' = BumpCounter(calls[c].args.platform, ticketCounter)
    /\ calls' = [calls EXCEPT
                    ![c].displayName =
                        DisplayName(calls[c].args.platform, ticketCounter),
                    ![c].ticketId = MapSize(tickets),
                    ![c].pc = "add"]
    /\ UNCHANGED <<tickets, nextTopicId, draftHelpTopics, publishedHelpTopics,
                   now, reply, browser, done>>

\* submitTicket from let newTicket on
SubmitEnd(c) ==
    /\ calls[c].op = "submitTicket"
    /\ calls[c].pc = "add"
    /\ tickets' = MapAdd(tickets, calls[c].ticketId,
                         NewTicket(calls[c].ticketId, calls[c].displayName,
                                   calls[c].args, now))
    /\ Finish(c, calls[c].ticketId)
    /\ UNCHANGED <<ticketCounter, nextTopicId, draftHelpTopics,
                   publishedHelpTopics, now, browser>>

SaveTopic(c) ==
    /\ calls[c].op = "saveHelpTopic"
    /\ calls[c].pc = "start"
    /\ LET topic == calls[c].args
           found == MapGet(draftHelpTopics, topic.id)
       IN  IF found = null
           THEN /\ nextTopicId' = nextTopicId + 1
                /\ draftHelpTopics' =
                       MapAdd(draftHelpTopics, nextTopicId,
                              NewTopic(nextTopicId, topic, now))
                /\ Finish(c, nextTopicId)
           ELSE /\ draftHelpTopics' =
                       MapAdd(draftHelpTopics, found[1].id,
                              UpdatedTopic(found[1], topic, now))
                /\ Finish(c, found[1].id)
                /\ UNCHANGED nextTopicId
    /\ UNCHANGED <<tickets, ticketCounter, publishedHelpTopics, now, browser>>

\* the keys of a map in ascending order
RECURSIVE MapKeys(_)
MapKeys(m) ==
    IF DOMAIN m = {} THEN << >>
    ELSE LET k == CHOOSE x \in DOMAIN m : \A y \in DOMAIN m : x <= y
         IN  << k >> \o MapKeys([x \in (DOMAIN m) \ {k} |-> m[x]])

\* publishHelpContent: publishedHelpTopics.clear() and the start of the loop
PublishClear(c) ==
    /\ calls[c].op = "publishHelpContent"
    /\ calls[c].pc = "start"
    /\ publishedHelpTopics' = MapEmpty
    /\ calls' = [calls EXCEPT ![c].todo = MapKeys(draftHelpTopics),
                              ![c].pc = "loop"]
    /\ UNCHANGED <<tickets, ticketCounter, nextTopicId, draftHelpTopics, now,
                   reply, browser, done>>

\* publishHelpContent: one round of the loop over the draft entries
PublishAdd(c) ==
    /\ calls[c].op = "publishHelpContent"
    /\ calls[c].pc = "loop"
    /\ calls[c].todo # << >>
    /\ LET id == Head(calls[c].todo)
       IN  publishedHelpTopics' =
               IF id \in DOMAIN draftHelpTopics
               THEN MapAdd(publishedHelpTopics, id,
                           Published(draftHelpTopics, now)[id])
               ELSE publishedHelpTopics
    /\ calls' = [calls EXCEPT ![c].todo = Tail(calls[c].todo)]
    /\ UNCHANGED <<tickets, ticketCounter, nextTopicId, draftHelpTopics, now,
                   reply, browser, done>>

\* publishHelpContent: the loop is over
PublishEnd(c) ==
    /\ calls[c].op = "publishHelpContent"
    /\ calls[c].pc = "loop"
    /\ calls[c].todo = << >>
    /\ Finish(c, null)
    /\ UNCHANGED <<store, now, browser>>

GetHelp(c) ==
    /\ calls[c].op = "getHelpTopics"
    /\ calls[c].pc = "start"
    /\ Finish(c, MapValues(publishedHelpTopics))
    /\ UNCHANGED <<store, now, browser>>

\* Time.now() is the same all through a message
Clock ==
    /\ ActorIdle
    /\ now < MaxCallTime
    /\ now' = now + 1
    /\ UNCHANGED <<store, reply, browser, traffic>>

NextConcurrent ==
    \/ \E c \in Callers : Send(c)
    \/ \E c \in Callers : Accept(c)
    \/ \E c \in Callers : SubmitBegin(c)
    \/ \E c \in Callers : SubmitEnd(c)
    \/ \E c \in Callers : SaveTopic(c)
    \/ \E c \in Callers : PublishClear(c)
    \/ \E c \in Callers : PublishAdd(c)
    \/ \E c \in Callers : PublishEnd(c)
    \/ \E c \in Callers : GetHelp(c)
    \/ Clock

SpecConcurrent == Init /\ [][NextConcurrent]_vars

-----------------------------------------------------------------------------
(* Properties *)

\* the step is a call of op: every call leaves the clock alone and names
\* itself in reply; the only other step is Tick
Called(op) == reply'.op = op /\ now' = now

Prefix(p) ==
    CASE p = "OneSpan" -> << "O", "S" >>
      [] p = "ObserveAI" -> << "O", "A", "I" >>
      [] p = "Freshworks" -> << "F", "W" >>

Numeral(k) ==
    IF k < 10
    THEN << << "0", "1", "2", "3", "4", "5", "6", "7", "8", "9" >>[k + 1] >>
    ELSE NatToText(k)

ExpectedName(p, k) == Prefix(p) \o << "-" >> \o Numeral(k)

OfPlatform(tk, p) == { i \in DOMAIN tk : tk[i].platform = p }

CounterOf(tc, p) ==
    CASE p = "OneSpan" -> tc.onespanCounter
      [] p = "ObserveAI" -> tc.observeAICounter
      [] p = "Freshworks" -> tc.freshworksCounter

C1_Names ==
    \A p \in Platform :
        { tickets[i].displayName : i \in OfPlatform(tickets, p) }
          = { ExpectedName(p, k) : k \in 1 .. Cardinality(OfPlatform(tickets, p)) }

C1_Step ==
    Called("submitTicket") =>
        LET p == reply'.args.platform
            k == 1 + Cardinality(OfPlatform(tickets, p))
            i == reply'.result
        IN  /\ i \notin DOMAIN tickets
            /\ i \in DOMAIN tickets'
            /\ tickets'[i].platform = p
            /\ tickets'[i].displayName = ExpectedName(p, k)

\* C1: the k-th ticket submitted for a platform is named "<prefix>-k" (OS,
\* OAI, FW), k counting from 1 in steps of 1 whatever else is submitted or
\* done in between; the names stored for a platform are exactly prefix-1 ..
\* prefix-n.
C1_DisplayNameSequence == []C1_Names /\ [][C1_Step]_vars

C1_Witness ==
    \E i, j, k \in DOMAIN tickets :
        /\ i < j /\ j < k
        /\ tickets[i].displayName = << "O", "S", "-", "1" >>
        /\ tickets[j].displayName = << "F", "W", "-", "1" >>
        /\ tickets[k].displayName = << "O", "S", "-", "2" >>

C2_Inv ==
    \A p \in Platform :
        CounterOf(ticketCounter, p) = 1 + Cardinality(OfPlatform(tickets, p))

C2_Step ==
    IF Called("submitTicket")
    THEN \A p \in Platform :
            CounterOf(ticketCounter', p) =
                CounterOf(ticketCounter, p)
                  + (IF p = reply'.args.platform THEN 1 ELSE 0)
    ELSE ticketCounter' = ticketCounter

\* C2: each platform counter is 1 plus the number of stored tickets of the
\* platform; submitTicket adds 1 to its platform's counter and leaves the two
\* others; every other step leaves all three, so none decreases or is reset.
C2_Counters == []C2_Inv /\ [][C2_Step]_vars

C2_Witness ==
    /\ ticketCounter.onespanCounter = 2
    /\ ticketCounter.observeAICounter = 1
    /\ DOMAIN publishedHelpTopics # {}
    /\ reply.op = "publishHelpContent"

C3_UniqueIds ==
    \A i, j \in DOMAIN tickets : tickets[i].id = tickets[j].id => i = j

C3_Step ==
    \A i \in DOMAIN tickets :
        /\ i \in DOMAIN tickets'
        /\ tickets'[i].id = tickets[i].id
        /\ tickets'[i].displayName = tickets[i].displayName
        /\ tickets'[i].platform = tickets[i].platform
        /\ tickets'[i].brand = tickets[i].brand
        /\ tickets'[i].submissionTime = tickets[i].submissionTime

\* C3: no two stored tickets share an id, and a stored ticket keeps its id,
\* displayName, platform, brand and submissionTime in every step.
C3_Identity == []C3_UniqueIds /\ [][C3_Step]_vars

C3_Witness ==
    \E i \in DOMAIN tickets :
        /\ tickets[i].submissionTime < now
        /\ tickets[i].comments # << >>
        /\ tickets[i].comments[1].timestamp > tickets[i].submissionTime

C4_Step ==
    Called("submitTicket") =>
        /\ ~reply'.trapped
        /\ reply'.result \in DOMAIN tickets'
        /\ LET t == tickets'[reply'.result]
               a == reply'.args
           IN  /\ t.status = "Submitted"
               /\ t.priority = "empty"
               /\ t.comments = << >>
               /\ t.submissionTime = now
               /\ t.platform = a.platform
               /\ t.issueDescription = a.issueDescription
               /\ t.officeName = a.officeName
               /\ t.agentName = a.agentName
               /\ t.employeeId = a.employeeId
               /\ t.email = a.email
               /\ t.freshworksEmail = a.freshworksEmail
               /\ t.extension = a.extension
               /\ t.brand = a.brand
               /\ t.policyNumber = a.policyNumber
               /\ t.attachments = a.attachments

\* C4: right after submitTicket returns id i, the ticket stored under i has
\* status Submitted, priority empty, no comments, the clock reading of the
\* call as submissionTime, and every caller-supplied field as given.
C4_FreshTicket == [][C4_Step]_vars

C4_Witness ==
    /\ reply.op = "submitTicket"
    /\ reply.result = 1
    /\ reply.result \in DOMAIN tickets
    /\ tickets[reply.result].submissionTime = 1
    /\ tickets[reply.result].attachments # << >>

IsPrefix(a, b) == Len(a) <= Len(b) /\ SubSeq(b, 1, Len(a)) = a

C5_Step ==
    \A i \in DOMAIN tickets :
        /\ i \in DOMAIN tickets'
        /\ IsPrefix(tickets[i].comments, tickets'[i].comments)
        /\ IF Called("addComment") /\ ~reply'.trapped /\ reply'.args.ticketId = i
           THEN tickets'[i].comments =
                    Append(tickets[i].comments,
                           [author |-> reply'.args.author,
                            content |-> reply'.args.content,
                            timestamp |-> now])
           ELSE tickets'[i].comments = tickets[i].comments

\* C5: comments are append-only: in every step a ticket's comments are a
\* prefix of its comments afterwards; a successful addComment appends exactly
\* one comment with the given author and content and the clock reading of the
\* call; no other step changes any comments.
C5_AppendOnly == [][C5_Step]_vars

C5_Witness ==
    \E i \in DOMAIN tickets :
        /\ Len(tickets[i].comments) = 2
        /\ tickets[i].comments[1].author = << "B" >>
        /\ tickets[i].comments[2].author = << "a" >>
        /\ tickets[i].comments[1].timestamp < tickets[i].comments[2].timestamp

C6_Step ==
    /\ Called("updateTicketStatus") /\ ~reply'.trapped =>
          /\ reply'.args.ticketId \in DOMAIN tickets
          /\ tickets' = [tickets EXCEPT ![reply'.args.ticketId].status =
                                            reply'.args.newStatus]
          /\ UNCHANGED <<ticketCounter, nextTopicId, draftHelpTopics,
                         publishedHelpTopics>>
    /\ Called("updateTicketPriority") /\ ~reply'.trapped =>
          /\ reply'.args.ticketId \in DOMAIN tickets
          /\ tickets' = [tickets EXCEPT ![reply'.args.ticketId].priority =
                                            reply'.args.newPriority]
          /\ UNCHANGED <<ticketCounter, nextTopicId, draftHelpTopics,
                         publishedHelpTopics>>

\* C6: on an existing ticket, updateTicketStatus changes that ticket's status
\* and nothing else, updateTicketPriority that ticket's priority and nothing
\* else: the other fields, the other tickets, the set of ticket ids, the
\* counters, nextTopicId and both topic collections stay as they were.
C6_UpdateFrame == [][C6_Step]_vars

C6_Witness ==
    /\ reply.op = "updateTicketStatus"
    /\ ~reply.trapped
    /\ reply.args.ticketId \in DOMAIN tickets
    /\ reply.args.newStatus = "InProgress"
    /\ tickets[reply.args.ticketId].status = "InProgress"
    /\ tickets[reply.args.ticketId].submissionTime < now

C7_Step ==
    \A op \in {"updateTicketStatus", "updateTicketPriority", "addComment"} :
        (Called(op) /\ reply'.args.ticketId \notin DOMAIN tickets) =>
            /\ reply'.trapped
            /\ reply'.result = "Ticket not found"
            /\ UNCHANGED store
            /\ reply'.args.ticketId \notin DOMAIN tickets'

\* C7: updateTicketStatus, updateTicketPriority and addComment on an id that
\* is not stored trap with "Ticket not found" and leave tickets, counters,
\* both topic collections and nextTopicId as before; no ticket appears under
\* the id.
C7_MissingTicketTraps == [][C7_Step]_vars

C7_Witness ==
    /\ reply.op = "addComment"
    /\ reply.trapped
    /\ DOMAIN tickets # {}
    /\ DOMAIN draftHelpTopics # {}

C8_Result ==
    reply.op = "getTicket" =>
        /\ ~reply.trapped
        /\ reply.result = IF reply.args \in DOMAIN tickets
                          THEN Some(tickets[reply.args])
                          ELSE null

C8_Step ==
    IF Called("submitTicket")
    THEN DOMAIN tickets' = (DOMAIN tickets) \cup {reply'.result}
    ELSE DOMAIN tickets' = DOMAIN tickets

\* C8: getTicket never traps; the stored ids are exactly the ids submitTicket
\* has returned, and getTicket returns the stored ticket for those and the
\* absent result for every other id.
C8_GetTicket == []C8_Result /\ [][C8_Step]_vars

C8_Witness ==
    /\ reply.op = "getTicket"
    /\ reply.result = null
    /\ reply.args >= MapSize(tickets)
    /\ DOMAIN tickets # {}

ListsEach(r, tk) ==
    /\ Len(r) = MapSize(tk)
    /\ { r[k] : k \in 1 .. Len(r) } = { tk[i] : i \in DOMAIN tk }

\* C9 as claimed: getTickets without filters returns every ticket once, each
\* submissionTime greater than that of the next element.
C9_StrictlyDescending ==
    LET r == TicketList(tickets, NoFilter)
    IN  /\ ListsEach(r, tickets)
        /\ \A k \in 1 .. Len(r) - 1 :
              r[k].submissionTime > r[k + 1].submissionTime

\* C9: getTickets without filters returns every stored ticket exactly once,
\* each submissionTime greater than or equal to that of the next element.
C9_Descending ==
    LET r == TicketList(tickets, NoFilter)
    IN  /\ ListsEach(r, tickets)
        /\ \A k \in 1 .. Len(r) - 1 :
              r[k].submissionTime >= r[k + 1].submissionTime

C9_Witness ==
    /\ reply.op = "getTickets"
    /\ reply.args = NoFilter
    /\ Len(reply.result) = 3
    /\ reply.result = TicketList(tickets, NoFilter)
    /\ reply.result[1].id = 2
    /\ reply.result[1].submissionTime > reply.result[2].submissionTime
    /\ reply.result[2].submissionTime = reply.result[3].submissionTime

Satisfies(t, f) ==
    /\ f.platformFilter # null => t.platform = f.platformFilter[1]
    /\ f.statusFilter # null => t.status = f.statusFilter[1]
    /\ f.brandFilter # null => t.brand = f.brandFilter[1]
    /\ f.priorityFilter # null => t.priority = f.priorityFilter[1]
    /\ f.startDate # null => t.submissionTime >= f.startDate[1]
    /\ f.endDate # null => t.submissionTime <= f.endDate[1]

\* C10: on every store a listing is asked of, and for every combination of
\* filters, getTickets returns, without duplicates, exactly the stored tickets
\* that satisfy every filter present: platform, status, brand and priority by
\* equality, startDate and endDate as inclusive bounds on submissionTime; an
\* absent filter excludes nothing.  (getTickets can be called in every state
\* and changes nothing, so these are all the stores the callers can reach.)
C10_ExactFilter ==
    reply.op = "getTickets" => \A f \in AllFilters :
        LET r == TicketList(tickets, f)
        IN  /\ \A k, l \in 1 .. Len(r) : r[k] = r[l] => k = l
            /\ { r[k] : k \in 1 .. Len(r) }
                 = { tickets[i] : i \in { j \in DOMAIN tickets :
                                            Satisfies(tickets[j], f) } }

C10_Witness ==
    /\ reply.op = "getTickets"
    /\ MapSize(tickets) = 2
    /\ \E f \in AllFilters :
        /\ f.platformFilter # null /\ f.statusFilter # null
        /\ f.brandFilter # null /\ f.priorityFilter # null
        /\ f.startDate # null /\ f.endDate # null
        /\ Len(TicketList(tickets, f)) = 1
        /\ TicketList(tickets, f)[1].submissionTime = f.endDate[1]
        /\ \E i \in DOMAIN tickets :
              tickets[i].submissionTime < f.startDate[1]

\* the texts of a ticket that a search looks into
SearchedTexts(t) ==
    { t.displayName, t.issueDescription, t.officeName, t.agentName,
      t.employeeId, t.email }
      \cup { t.freshworksEmail[k] : k \in 1 .. Len(t.freshworksEmail) }
      \cup { t.comments[k].author : k \in 1 .. Len(t.comments) }
      \cup { t.comments[k].content : k \in 1 .. Len(t.comments) }

IsSubstring(p, t) ==
    \E k \in 1 .. Len(t) + 1 : \E l \in k - 1 .. Len(t) : SubSeq(t, k, l) = p

Hits(tk, term) ==
    { i \in DOMAIN tk :
        \E x \in SearchedTexts(tk[i]) :
            IsSubstring(TextToLower(term), TextToLower(x)) }

\* C11: on every store a search is asked of, searchTickets(term) returns,
\* each once, exactly the tickets that have the lower-cased term as a
\* substring of the lower-cased displayName, issueDescription, officeName,
\* agentName, employeeId, email, freshworksEmail (when present) or of a
\* comment's author or content; extension, policyNumber, platform, brand,
\* status and priority are not looked into; the empty term returns every
\* stored ticket.
C11_SearchExact ==
    reply.op = "searchTickets" =>
        /\ ~reply.trapped
        /\ reply.result = SearchList(tickets, reply.args)
        /\ \A term \in SearchTerms :
              LET r == SearchList(tickets, term)
              IN  /\ \A k, l \in 1 .. Len(r) : r[k] = r[l] => k = l
                  /\ { r[k] : k \in 1 .. Len(r) }
                       = { tickets[i] : i \in Hits(tickets, term) }
                  /\ term = << >> => Len(r) = MapSize(tickets)

C11_Witness ==
    /\ reply.op = "searchTickets"
    /\ reply.args = << "a" >>
    /\ Len(reply.result) = 2
    /\ \E i, j \in DOMAIN tickets :
          /\ tickets[i].policyNumber = Some(<< "9" >>)
          /\ SearchList(tickets, << "9" >>) = << >>
          /\ tickets[j].comments # << >>
          /\ SearchList(tickets, << "X" >>) = << tickets[j] >>
          /\ SearchList(tickets, << "B", "O" >>) = << tickets[j] >>
          /\ Len(SearchList(tickets, << >>)) = 2

C12_Order ==
    reply.op = "searchTickets" =>
        \A term \in SearchTerms :
            LET r == SearchList(tickets, term)
            IN  \A k \in 1 .. Len(r) - 1 : r[k].id < r[k + 1].id

C12_Step ==
    Called("submitTicket") =>
        /\ \A i \in DOMAIN tickets : i < reply'.result
        /\ tickets'[reply'.result].id = reply'.result

\* C12: searchTickets returns its matches in the order in which submitTicket
\* created them (each new ticket gets an id above every stored id, and the
\* matches come in ascending id), whatever their submissionTime and whatever
\* status, priority and comment updates have re-written them since.
C12_InsertionOrder == []C12_Order /\ [][C12_Step]_vars

C12_Witness ==
    /\ reply.op = "searchTickets"
    /\ Len(reply.result) = 2
    /\ reply.result[1].submissionTime < reply.result[2].submissionTime
    /\ reply.result[1].status = "Resolved"
    /\ reply.result[2].status = "Submitted"
    /\ reply.result # TicketList(tickets, NoFilter)

C13_Enabled ==
    \A i \in DOMAIN tickets :
        /\ \A t \in TicketStatus :
              ENABLED ( /\ updateTicketStatus([ticketId |-> i, newStatus |-> t])
                        /\ ~reply'.trapped
                        /\ tickets'[i].status = t )
        /\ \A p \in TicketPriority :
              ENABLED ( /\ updateTicketPriority([ticketId |-> i, newPriority |-> p])
                        /\ ~reply'.trapped
                        /\ tickets'[i].priority = p )

C13_Step ==
    /\ Called("updateTicketStatus") /\ reply'.args.ticketId \in DOMAIN tickets =>
          /\ ~reply'.trapped
          /\ tickets'[reply'.args.ticketId].status = reply'.args.newStatus
    /\ Called("updateTicketPriority") /\ reply'.args.ticketId \in DOMAIN tickets =>
          /\ ~reply'.trapped
          /\ tickets'[reply'.args.ticketId].priority = reply'.args.newPriority

\* C13: transitions are unconstrained: at every moment of an existing
\* ticket's life, whatever its status s and priority, updateTicketStatus can
\* be run for each status t and ends without error with the ticket in t, and
\* likewise updateTicketPriority for each priority; every such call made
\* does so.  Hence every status and priority stays reachable from every other.
C13_FreeTransitions == []C13_Enabled /\ [][C13_Step]_vars

C13_Witness ==
    /\ reply.op = "updateTicketStatus"
    /\ ~reply.trapped
    /\ reply.args.newStatus = "Submitted"
    /\ reply.args.ticketId \in DOMAIN tickets
    /\ tickets[reply.args.ticketId].status = "Submitted"
    /\ tickets[reply.args.ticketId].priority = "low"
    /\ tickets[reply.args.ticketId].submissionTime < now

C14_Step ==
    ( /\ Called("updateTicketStatus")
      /\ reply'.args.ticketId \in DOMAIN tickets
      /\ tickets[reply'.args.ticketId].status = reply'.args.newStatus ) =>
        /\ ~reply'.trapped
        /\ UNCHANGED store

C14_Again ==
    (reply.op = "updateTicketStatus" /\ ~reply.trapped) =>
        ENABLED ( /\ updateTicketStatus(reply.args)
                  /\ ~reply'.trapped
                  /\ UNCHANGED store )

\* C14: updateTicketStatus is idempotent: called on an existing ticket with
\* the status the ticket holds, it ends without error and leaves tickets,
\* counters, both topic collections and nextTopicId as they were; and right
\* after any successful updateTicketStatus, the same call made again ends
\* without error and changes nothing.
C14_Idempotent == []C14_Again /\ [][C14_Step]_vars

C14_Witness ==
    /\ reply.op = "updateTicketStatus"
    /\ ~reply.trapped
    /\ reply.args.newStatus = "Resolved"
    /\ tickets[reply.args.ticketId].status = "Resolved"
    /\ tickets[reply.args.ticketId].submissionTime < now

C15_Step ==
    (Called("saveHelpTopic") /\ reply'.args.id \notin DOMAIN draftHelpTopics) =>
        LET n == nextTopicId
            topic == reply'.args
        IN  /\ ~reply'.trapped
            /\ reply'.result = n
            /\ nextTopicId' = n + 1
            /\ n \notin DOMAIN draftHelpTopics
            /\ DOMAIN draftHelpTopics' = (DOMAIN draftHelpTopics) \cup {n}
            /\ draftHelpTopics'[n].id = n
            /\ draftHelpTopics'[n].topicName = topic.topicName
            /\ draftHelpTopics'[n].platform = topic.platform
            /\ draftHelpTopics'[n].explanation = topic.explanation
            /\ draftHelpTopics'[n].createdTime = now
            /\ draftHelpTopics'[n].modifiedTime = now
            /\ \A x \in DOMAIN draftHelpTopics :
                  draftHelpTopics'[x] = draftHelpTopics[x]

\* C15: saveHelpTopic with an id that is no key of the drafts creates a
\* topic: it is stored under the value nextTopicId has at the call, whatever
\* the input id, nextTopicId then grows by 1, createdTime and modifiedTime are
\* both the clock reading of the call and not the input's, the other drafts
\* stay as they were, and the new id is returned.
C15_CreateTopic == [][C15_Step]_vars

C15_Witness ==
    /\ reply.op = "saveHelpTopic"
    /\ reply.args.id = 1
    /\ reply.result = 2
    /\ nextTopicId = 3
    /\ DOMAIN draftHelpTopics = {2}
    /\ draftHelpTopics[2].createdTime = 1
    /\ draftHelpTopics[2].modifiedTime = 1
    /\ reply.args.createdTime = 5

C16_Update == Called("saveHelpTopic") /\ reply'.args.id \in DOMAIN draftHelpTopics

C16_Kept ==
    C16_Update =>
        LET i == reply'.args.id
            topic == reply'.args
        IN  /\ ~reply'.trapped
            /\ reply'.result = i
            /\ nextTopicId' = nextTopicId
            /\ DOMAIN draftHelpTopics' = DOMAIN draftHelpTopics
            /\ draftHelpTopics'[i].id = i
            /\ draftHelpTopics'[i].createdTime = draftHelpTopics[i].createdTime
            /\ draftHelpTopics'[i].topicName = topic.topicName
            /\ draftHelpTopics'[i].platform = topic.platform
            /\ draftHelpTopics'[i].explanation = topic.explanation

C16_StepAdvances ==
    /\ C16_Kept
    /\ C16_Update =>
          draftHelpTopics'[reply'.args.id].modifiedTime
            > draftHelpTopics[reply'.args.id].modifiedTime

C16_Step ==
    /\ C16_Kept
    /\ C16_Update =>
          /\ draftHelpTopics'[reply'.args.id].modifiedTime = now
          /\ draftHelpTopics'[reply'.args.id].modifiedTime
               >= draftHelpTopics[reply'.args.id].modifiedTime

\* C16 as claimed: saveHelpTopic with the id of a draft keeps the id and the
\* createdTime, overwrites topicName, platform and explanation, leaves the
\* number of drafts and nextTopicId, returns the id, and the new modifiedTime
\* is later than the previous one.
C16_ModifiedAdvances == [][C16_StepAdvances]_vars

\* C16: saveHelpTopic with the id of a draft keeps the id and the createdTime,
\* overwrites topicName, platform and explanation, leaves the number of drafts
\* and nextTopicId, returns the id, and sets modifiedTime to the clock reading
\* of the call, which is never earlier than the previous modifiedTime.
C16_UpdateTopic == [][C16_Step]_vars

C16_Witness ==
    /\ reply.op = "saveHelpTopic"
    /\ reply.args.id = 1
    /\ reply.result = 1
    /\ nextTopicId = 2
    /\ draftHelpTopics[1].createdTime = 0
    /\ draftHelpTopics[1].modifiedTime = 1
    /\ draftHelpTopics[1].topicName = Txt2
    /\ 1 \in DOMAIN publishedHelpTopics
    /\ publishedHelpTopics[1].topicName = Txt1

C17_Step ==
    Called("deleteHelpTopic") =>
        /\ ~reply'.trapped
        /\ DOMAIN draftHelpTopics' = (DOMAIN draftHelpTopics) \ {reply'.args}
        /\ \A x \in DOMAIN draftHelpTopics' :
              draftHelpTopics'[x] = draftHelpTopics[x]
        /\ UNCHANGED <<publishedHelpTopics, nextTopicId, tickets, ticketCounter>>
        /\ reply'.args \notin DOMAIN draftHelpTopics => UNCHANGED store

\* C17: deleteHelpTopic(id) removes the draft with that id and nothing else:
\* the other drafts, the published collection, nextTopicId, the tickets and
\* their counters stay as they were; for an id that is no draft the call
\* ends without error and changes nothing.
C17_DeleteFrame == [][C17_Step]_vars

C17_Witness ==
    /\ reply.op = "deleteHelpTopic"
    /\ reply.args = 1
    /\ DOMAIN publishedHelpTopics = {1, 2}
    /\ DOMAIN draftHelpTopics = {2}

C18_Step ==
    Called("publishHelpContent") =>
        /\ ~reply'.trapped
        /\ DOMAIN publishedHelpTopics' = DOMAIN draftHelpTopics
        /\ \A i \in DOMAIN draftHelpTopics :
              /\ publishedHelpTopics'[i].id = draftHelpTopics[i].id
              /\ publishedHelpTopics'[i].topicName = draftHelpTopics[i].topicName
              /\ publishedHelpTopics'[i].platform = draftHelpTopics[i].platform
              /\ publishedHelpTopics'[i].explanation =
                    draftHelpTopics[i].explanation
              /\ publishedHelpTopics'[i].createdTime =
                    draftHelpTopics[i].createdTime
              /\ publishedHelpTopics'[i].modifiedTime = now
        /\ draftHelpTopics' = draftHelpTopics

\* C18: right after publishHelpContent the published collection has the ids
\* of the drafts and no other, each published topic has its draft's
\* topicName, platform, explanation and createdTime and the clock reading of
\* the publish as modifiedTime; what was published before and is no draft any
\* more is gone; the drafts are as they were.
C18_PublishReplaces == [][C18_Step]_vars

C18_Witness ==
    /\ reply.op = "publishHelpContent"
    /\ nextTopicId = 3
    /\ DOMAIN draftHelpTopics = {2}
    /\ DOMAIN publishedHelpTopics = {2}
    /\ publishedHelpTopics[2].modifiedTime > draftHelpTopics[2].modifiedTime
    /\ publishedHelpTopics[2].createdTime = draftHelpTopics[2].createdTime

C19_Step ==
    /\ ~Called("publishHelpContent") =>
          /\ publishedHelpTopics' = publishedHelpTopics
          /\ MapValues(publishedHelpTopics') = MapValues(publishedHelpTopics)
    /\ Called("getHelpTopics") =>
          /\ ~reply'.trapped
          /\ Len(reply'.result) = MapSize(publishedHelpTopics)
          /\ { reply'.result[k] : k \in 1 .. Len(reply'.result) }
               = { publishedHelpTopics[i] : i \in DOMAIN publishedHelpTopics }

\* C19: the published collection changes only in publishHelpContent: every
\* other step (saveHelpTopic, deleteHelpTopic, the ticket operations, the
\* queries, the clock) leaves it and the result of getHelpTopics, which is
\* its content, as they were; a topic edited or deleted in the drafts keeps
\* its published copy until the next publish.
C19_PublishedFrame == [][C19_Step]_vars

C19_Witness ==
    /\ reply.op = "getHelpTopics"
    /\ Len(reply.result) = 1
    /\ reply.result[1].topicName = Txt1
    /\ reply.result[1].id \in DOMAIN draftHelpTopics
    /\ draftHelpTopics[reply.result[1].id].topicName = Txt2
    /\ DOMAIN tickets # {}

NoCounts == [onespan |-> 0, observeAI |-> 0, freshworks |-> 0, total |-> 0]

InWindow(tk, req) ==
    { i \in DOMAIN tk : /\ req.startTime <= tk[i].submissionTime
                        /\ tk[i].submissionTime <= req.endTime }

C20_Step ==
    Called("getTicketAnalytics") =>
        LET periods == reply'.result.periods
        IN  /\ ~reply'.trapped
            /\ Len(periods) >= 1
            /\ IF InWindow(tickets, reply'.args) = {}
               THEN periods = << << formatDate(now), NoCounts >> >>
               ELSE \A k \in 1 .. Len(periods) : periods[k][2] # NoCounts

\* C20: getTicketAnalytics never returns an empty periods list: when no
\* stored ticket has startTime <= submissionTime <= endTime (the store is
\* empty, the window misses every ticket, or startTime > endTime) it returns
\* the one entry keyed by formatDate of the clock reading of the call, with
\* the four counts 0; when a ticket is in the window no entry has all four
\* counts 0.
C20_NeverEmpty == [][C20_Step]_vars

C20_Witness ==
    /\ reply.op = "getTicketAnalytics"
    /\ reply.args.startTime > reply.args.endTime
    /\ DOMAIN tickets # {}
    /\ now = 2
    /\ reply.result.periods
         = << << << "1", "9", "7", "0", "-", "0", "-", "2" >>, NoCounts >> >>

RECURSIVE SumTotals(_)
SumTotals(periods) ==
    IF periods = << >> THEN 0
    ELSE Head(periods)[2].total + SumTotals(Tail(periods))

\* the in-window tickets of platform p submitted on the day with key k
Counted(tk, req, k, p) ==
    { i \in InWindow(tk, req) :
        formatDate(tk[i].submissionTime) = k /\ tk[i].platform = p }

\* C21: when a ticket lies in [startTime, endTime], both ends included,
\* getTicketAnalytics returns one entry per period key of the in-window
\* tickets and no other; in each entry onespan, observeAI and freshworks are
\* the numbers of in-window tickets of that platform with that key, total is
\* their sum, and the totals add up to the number of in-window tickets.
C21_PeriodCounts ==
    (reply.op = "getTicketAnalytics" /\ InWindow(tickets, reply.args) # {}) =>
        LET periods == reply.result.periods
            req == reply.args
        IN  /\ \A k, l \in 1 .. Len(periods) :
                  periods[k][1] = periods[l][1] => k = l
            /\ { periods[k][1] : k \in 1 .. Len(periods) }
                 = { formatDate(tickets[i].submissionTime) :
                       i \in InWindow(tickets, req) }
            /\ \A k \in 1 .. Len(periods) :
                  LET key == periods[k][1]
                      counts == periods[k][2]
                  IN  /\ counts.onespan
                           = Cardinality(Counted(tickets, req, key, "OneSpan"))
                      /\ counts.observeAI
                           = Cardinality(Counted(tickets, req, key, "ObserveAI"))
                      /\ counts.freshworks
                           = Cardinality(Counted(tickets, req, key, "Freshworks"))
                      /\ counts.total = counts.onespan + counts.observeAI
                                          + counts.freshworks
            /\ SumTotals(periods) = Cardinality(InWindow(tickets, req))

C21_Witness ==
    /\ reply.op = "getTicketAnalytics"
    /\ reply.args.startTime = 0
    /\ reply.args.endTime = 1
    /\ MapSize(tickets) = 2
    /\ reply.result.periods
         = << << << "1", "9", "7", "0", "-", "0", "-", "1" >>,
                 [onespan |-> 1, observeAI |-> 0, freshworks |-> 1,
                  total |-> 2] >> >>
    /\ \E i, j \in DOMAIN tickets :
          tickets[i].submissionTime = 0 /\ tickets[j].submissionTime = 1

C22_Step ==
    Called("getTicketAnalytics") =>
        \A g \in Granularity :
            TicketAnalytics(tickets, [reply'.args EXCEPT !.granularity = g], now)
              = reply'.result

\* C22: the granularity argument is inert: whatever the store, the window and
\* the clock reading, the periods getTicketAnalytics returns (keys and counts)
\* are those it returns there for each of day, week and month.
C22_GranularityInert == [][C22_Step]_vars

C22_Witness ==
    /\ reply.op = "getTicketAnalytics"
    /\ reply.args.granularity = "month"
    /\ Len(reply.result.periods) = 2
    /\ reply.result.periods[1][1] = << "1", "9", "7", "0", "-", "0", "-", "1" >>
    /\ reply.result.periods[2][1] = << "1", "9", "7", "0", "-", "0", "-", "2" >>

MonthTable == << 31, 28, 31, 30, 31, 30, 31, 31, 30, 31, 30, 31 >>

\* the days of the first k months of the table
RECURSIVE DaysBefore(_)
DaysBefore(k) == IF k = 0 THEN 0 ELSE DaysBefore(k - 1) + MonthTable[k]

DayOf(timestamp) == timestamp \div DayLength

\* the number of leading months of the table that fit whole into the
\* day-of-year
LeadingMonths(dayOfYear) ==
    CHOOSE k \in 0 .. 12 :
        /\ DaysBefore(k) <= dayOfYear
        /\ \A l \in k + 1 .. 12 : DaysBefore(l) > dayOfYear

DateText(year, month, day) ==
    NatToText(year) \o << "-" >> \o NatToText(month) \o << "-" >>
      \o NatToText(day)

\* C23: for every non-negative timestamp formatDate returns
\* "{year}-{month}-{day}", unpadded, with days = timestamp div (length of a
\* day), year = 1970 + days div 365, month = the number of leading months of
\* the table (31,28,31,30,31,30,31,31,30,31,30,31) consumed whole by days mod
\* 365 before one does not fit, and day = the days then left + 1.
C23_LeadingMonthsWalk ==
    reply.op = "formatDate" =>
        LET days == DayOf(reply.args)
            dayOfYear == days % 365
            month == LeadingMonths(dayOfYear)
        IN  reply.result = DateText(1970 + days \div 365, month,
                                    dayOfYear - DaysBefore(month) + 1)

\* C26: within one 365-day block formatDate gives different days different
\* keys, so no other day of the block has the key of the day formatted and
\* the analytics never counts tickets of different days under one period.
C26_DaysKeptApart ==
    reply.op = "formatDate" =>
        \A other \in 0 .. MaxDay :
            /\ other \div 365 = DayOf(reply.args) \div 365
            /\ other # DayOf(reply.args)
            => formatDate(other * DayLength) # reply.result

DigitOf(char) == CHOOSE digit \in 0 .. 9 : NatToText(digit) = << char >>

RECURSIVE TextToNat(_)
TextToNat(text) ==
    IF text = << >> THEN 0
    ELSE TextToNat(SubSeq(text, 1, Len(text) - 1)) * 10
           + DigitOf(text[Len(text)])

\* the three numbers of a "{year}-{month}-{day}" text
DateFields(text) ==
    LET dashes == { i \in 1 .. Len(text) : text[i] = "-" }
        first == CHOOSE i \in dashes : \A j \in dashes : i <= j
        last == CHOOSE i \in dashes : \A j \in dashes : j <= i
    IN  [year |-> TextToNat(SubSeq(text, 1, first - 1)),
         month |-> TextToNat(SubSeq(text, first + 1, last - 1)),
         day |-> TextToNat(SubSeq(text, last + 1, Len(text)))]

\* C27: every key formatDate produces is a calendar date: its month is in
\* 1..12 and its day in 1..the length of that month, and the first 31 days of
\* a 365-day block give month 1.
C27_CalendarDate ==
    reply.op = "formatDate" =>
        LET date == DateFields(reply.result)
        IN  /\ date.month \in 1 .. 12
            /\ date.day \in 1 .. MonthTable[date.month]
            /\ DayOf(reply.args) % 365 < 31 => date.month = 1

\* C28: a ticket map with n tickets has exactly the keys 0..n-1 and every
\* ticket is stored under its own id; submitTicket returns n and makes the
\* map one larger; no operation removes a ticket or changes the key set
\* otherwise; and the status, comment and priority updates, whether they
\* write under the id of the ticket read or under the id of the request,
\* rewrite the entry of the requested id and no other.
C28_Dense ==
    /\ DOMAIN tickets = 0 .. MapSize(tickets) - 1
    /\ \A id \in DOMAIN tickets : tickets[id].id = id

C28_Step ==
    /\ DOMAIN tickets \subseteq DOMAIN tickets'
    /\ IF Called("submitTicket")
       THEN /\ reply'.result = MapSize(tickets)
            /\ MapSize(tickets') = MapSize(tickets) + 1
            /\ \A id \in DOMAIN tickets : tickets'[id] = tickets[id]
       ELSE DOMAIN tickets' = DOMAIN tickets
    /\ \/ Called("updateTicketStatus")
       \/ Called("updateTicketPriority")
       \/ Called("addComment")
       => \A id \in DOMAIN tickets :
              id # reply'.args.ticketId => tickets'[id] = tickets[id]

C28_TicketKeys == []C28_Dense /\ [][C28_Step]_vars

C28_Witness ==
    /\ MapSize(tickets) = 2
    /\ reply.op = "updateTicketPriority"
    /\ ~reply.trapped
    /\ reply.args.ticketId = 1
    /\ tickets[1].priority = "high"
    /\ tickets[0].priority = "empty"

\* C29: help-topic ids are never reused.  Always nextTopicId is at least 1
\* and greater than every id in the drafts and in the published collection,
\* so 0 is never a draft key; nextTopicId never goes down; and a save whose
\* id is no draft key, be it 0 or the id of a draft deleted before, returns
\* the id nextTopicId had, which no topic has been given before, stores the
\* topic under it and under no other id, and moves nextTopicId past it.
C29_Fresh ==
    /\ nextTopicId >= 1
    /\ \A id \in (DOMAIN draftHelpTopics) \cup (DOMAIN publishedHelpTopics) :
           id < nextTopicId
    /\ 0 \notin DOMAIN draftHelpTopics

C29_Step ==
    /\ nextTopicId' >= nextTopicId
    /\ Called("saveHelpTopic") /\ reply'.args.id \notin DOMAIN draftHelpTopics
       => /\ reply'.result = nextTopicId
          /\ nextTopicId' = nextTopicId + 1
          /\ DOMAIN draftHelpTopics' =
                 (DOMAIN draftHelpTopics) \cup {nextTopicId}
          /\ draftHelpTopics'[nextTopicId].id = nextTopicId

C29_IdsNotReused == []C29_Fresh /\ [][C29_Step]_vars

C29_Witness ==
    /\ reply.op = "saveHelpTopic"
    /\ reply.args.id = 1
    /\ reply.result = 2
    /\ DOMAIN draftHelpTopics = {2}
    /\ 1 \in DOMAIN publishedHelpTopics

\* C30: the version check cannot loop on reloads.  A run that finds the
\* session guard set does not reload; a run that reloads has set the guard
\* and stored the version it fetched before; so of two consecutive runs of a
\* session at most one reloads, whatever is deployed in between.  A run that
\* does not reload ends with loadApp(), also when the fetch rejects, the
\* status is not ok, the body does not parse or a storage call throws; and
\* every run comes to one of the two ends.
C30_Guarded ==
    /\ \A i \in 1 .. Len(runs) - 1 :
           ~(runs[i] = "reload" /\ runs[i + 1] = "reload")
    /\ boot.pc = "reload"
       => /\ MapGet(sessionStorage, RELOAD_GUARD_KEY) # null
          /\ runs # << >>
          /\ runs[Len(runs)] = "reload"

C30_Step ==
    boot.pc = "fetched" /\ boot' # boot
    => /\ boot'.pc \in {"reload", "app"}
       /\ Len(runs') = Len(runs) + 1
       /\ runs'[Len(runs')] = boot'.pc
       /\ boot'.pc = "app"
          \/ /\ boot.response.status = "ok"
             /\ MapGet(sessionStorage, RELOAD_GUARD_KEY) = null
             /\ MapGet(sessionStorage', RELOAD_GUARD_KEY) # null
             /\ MapGet(localStorage', VERSION_CHECK_KEY) =
                    IF boot.response.version = null THEN Some("unknown")
                    ELSE boot.response.version
             /\ MapGet(sessionStorage', RELOAD_GUARD_KEY) =
                    MapGet(localStorage', VERSION_CHECK_KEY)

C30_RunEnds == boot.pc \in {"fetch", "fetched"} ~> boot.pc \in {"reload", "app"}

C30_NoReloadLoop == []C30_Guarded /\ [][C30_Step]_vars /\ C30_RunEnds

C30_Witness ==
    /\ runs = << "reload", "app" >>
    /\ MapGet(sessionStorage, RELOAD_GUARD_KEY) = Some("v2")
    /\ MapGet(localStorage, VERSION_CHECK_KEY) = Some("v2")
    /\ deployed = Some("v1")
    /\ boot.pc = "app"

QueryOps ==
    {"getTickets", "getTicket", "searchTickets", "getHelpTopics",
     "getHelpTopicsDraft", "getTicketAnalytics"}

\* the clock reads what it read when the reply was given, as far as the
\* reply tells: only the period key of an analytics answer without tickets
\* comes from the clock
SameReading ==
    reply.op = "getTicketAnalytics" /\ reply.result.periods[1][2].total = 0
    => reply.result.periods[1][1] = formatDate(now)

\* C25: getTickets, getTicket, searchTickets, getHelpTopics,
\* getHelpTopicsDraft and getTicketAnalytics are read-only: a call of any of
\* them, with any argument in any state, leaves the tickets, the counters,
\* nextTopicId and both help-topic collections as they were; and the same
\* query called again with the same argument, no other call in between and
\* the clock reading the same, returns the same result.
C25_Step ==
    /\ reply'.op \in QueryOps /\ now' = now => store' = store
    /\ /\ reply.op \in QueryOps
       /\ reply'.op = reply.op
       /\ reply'.args = reply.args
       /\ now' = now
       /\ SameReading
       => reply'.result = reply.result /\ reply'.trapped = reply.trapped

C25_QueriesReadOnly == [][C25_Step]_vars

C25_Witness ==
    /\ reply.op = "getTicketAnalytics"
    /\ reply.result.periods[1][2].total = 0
    /\ reply.result.periods[1][1] # formatDate(now)
    /\ MapSize(tickets) = 1
    /\ DOMAIN publishedHelpTopics = {1}

\* the store and the answers that the calls of a log give when they are
\* made one after the other, each as one whole operation
RECURSIVE Replay(_)
Replay(log) ==
    IF log = << >>
    THEN [tickets |-> MapEmpty,
          ticketCounter |-> [onespanCounter |-> 1, observeAICounter |-> 1,
                             freshworksCounter |-> 1],
          nextTopicId |-> 1,
          draftHelpTopics |-> MapEmpty,
          publishedHelpTopics |-> MapEmpty,
          answers |-> << >>]
    ELSE LET s == Replay(SubSeq(log, 1, Len(log) - 1))
             e == log[Len(log)]
         IN  CASE e.op = "submitTicket" ->
                    LET id == MapSize(s.tickets)
                        name == DisplayName(e.args.platform, s.ticketCounter)
                    IN  [s EXCEPT
                           !.tickets = MapAdd(s.tickets, id,
                                              NewTicket(id, name, e.args, e.time)),
                           !.ticketCounter =
                               BumpCounter(e.args.platform, s.ticketCounter),
                           !.answers = Append(s.answers, id)]
               [] e.op = "saveHelpTopic" ->
                    [s EXCEPT
                       !.draftHelpTopics =
                           MapAdd(s.draftHelpTopics, s.nextTopicId,
                                  NewTopic(s.nextTopicId, e.args, e.time)),
                       !.nextTopicId = s.nextTopicId + 1,
                       !.answers = Append(s.answers, s.nextTopicId)]
               [] e.op = "publishHelpContent" ->
                    [s EXCEPT
                       !.publishedHelpTopics =
                           Published(s.draftHelpTopics, e.time),
                       !.answers = Append(s.answers, null)]
               [] e.op = "getHelpTopics" ->
                    [s EXCEPT
                       !.answers =
                           Append(s.answers, MapValues(s.publishedHelpTopics))]

\* C24: calls of concurrent callers are serialised one whole operation at a
\* time.  The answers given are the answers the same calls give when made
\* one after the other in the order they were answered, and whenever no call
\* is part-way through the store is the store those calls leave; so no two
\* submitTicket calls are answered with the same id, no two tickets have the
\* same displayName, and every answer of getHelpTopics is the collection
\* left by the publishHelpContent answered last before it (or empty), never
\* a collection cleared and partly refilled.
C24_Serialised ==
    LET s == Replay(done)
    IN  /\ \A i \in 1 .. Len(done) : done[i].result = s.answers[i]
        /\ Running = {}
           => store = << s.tickets, s.ticketCounter, s.nextTopicId,
                         s.draftHelpTopics, s.publishedHelpTopics >>
        /\ \A i, j \in 1 .. Len(done) :
               /\ i < j
               /\ done[i].op = "submitTicket"
               /\ done[j].op = "submitTicket"
               => /\ done[i].result # done[j].result
                  /\ tickets[done[i].result].displayName
                         # tickets[done[j].result].displayName

\* a publishHelpContent has cleared the published collection and not
\* refilled it, while a getHelpTopics of another caller waits, and a
\* submitTicket was answered while that call was under way
C24_Witness ==
    \E c, d \in Callers :
        /\ calls[c].op = "publishHelpContent"
        /\ calls[c].pc = "loop"
        /\ calls[c].todo # << >>
        /\ calls[d].op = "getHelpTopics"
        /\ calls[d].pc = "sent"
        /\ Len(done) = 1

====
